---- MODULE Spec2Model ----
(***************************************************************************)
(* cargo-interactive-update: the dependency-gathering and outdated-set     *)
(* resolution engine (src/cargo.rs, src/api.rs, src/info.rs), the shared   *)
(* progress counter (src/loading.rs) and the selection UI (src/main.rs,    *)
(* src/cli.rs).                                                            *)
(*                                                                         *)
(* The specifications share the variables below:                           *)
(*   SpecLoader  N threads calling Loader::inc_loader on one Loader        *)
(*   SpecGather  extract_dependencies_from_sections + find_matching_package*)
(*   Spec        the fetch phase: retrieve_outdated_dependencies over a    *)
(*               workspace tree, one thread per lookup and per member      *)
(*   SpecMerge   the fetch phase over trees in which a member lists        *)
(*               members itself                                            *)
(*   FairSpec    the fetch phase under fair scheduling, then main up to    *)
(*               the creation of the selection State                       *)
(*   SpecWalk    gather_dependencies: the recursive walk over the          *)
(*               workspace members' manifests, then len() of the result    *)
(*   SpecApi     get_latest_version and CratesIoResponse::from_value on    *)
(*               one response body                                         *)
(*   SpecCli     the selection UI: State::new, the key loop of main        *)
(***************************************************************************)
EXTENDS Integers, Sequences, FiniteSets, TLC

VARIABLES
    \* ---- loading.rs: LoaderInner behind Arc<Mutex<..>> ----
    total_deps,      \* LoaderInner.total_deps
    loaded_deps,     \* LoaderInner.loaded_deps
    cols,            \* LoaderInner.cols
    digits,          \* LoaderInner.digits
    mutex,           \* holder of the Mutex: 0 = unlocked, else the thread id
    shown,           \* what inc_loader last queued to stdout: [index, perc, loaded]
    incpc,           \* SpecLoader: thread -> position inside inc_loader
    inctmp,          \* SpecLoader: thread -> value of loaded_deps it read
    \* ---- cargo.rs: gathering ----
    lockfile,        \* Lockfile.packages: sequence of [name, version, source]
    section,         \* the dependencies table being read: sequence of entries
    gkind,           \* DependencyKind of the section
    gitem,           \* what dependencies_section is: "table" | "absent" | "value"
    gpos,            \* index of the next entry flat_map will visit
    gdeps,           \* Vec<CargoDependency> collected so far
    gfound,          \* for each collected dependency: [entry, landed, index]
    gstatus,         \* "called" | "reading" | "done" | "panicked"
    \* ---- cargo.rs: fetching ----
    tree,            \* the CargoDependencies tree: node -> [parent, member,
                     \*   package_name, dependencies]; node 1 is the root
    node,            \* node -> the frame of its retrieve_outdated_dependencies:
                     \*   [pc, ws_threads, joined, wsjoined, deps, cargo_toml_files]
    task,            \* node -> dependency index -> its lookup thread:
                     \*   [pc, resp, ret, incs, clients, via]
    registry,        \* what the registries may answer: [crates_io, alt]
    \* ---- cargo.rs: the workspace walk of gather_dependencies ----
    manifests,       \* path -> the Cargo.toml found there: [file, package_name,
                     \*   deps, members]
    wstack,          \* the frames of gather_dependencies_inner being run:
                     \*   [id, items, next, parent, lockfile]
    wlock,           \* node -> the lock file its declarations were resolved with
    wstatus,         \* "called" | "walking" | "done" | "panicked"
    wlen,            \* what len() of the gathered root returned (main.rs:28)
    \* ---- main.rs and cli.rs: the selection UI ----
    mainpc,          \* where main is: "fetch" | "state" | "loop" | "exit"
    state,           \* cli::State once created: [selected, cursor_location,
                     \*   outdated_deps], the vectors 1-based
    applied,         \* the arguments apply_versions was called with, in order
    event,           \* what event::read() returned last ("none" before any)
    \* ---- api.rs: one crates.io request ----
    api_body,        \* what the transfer left in `body`
    api_version,     \* CargoDependency.version of the request
    api_ret          \* get_latest_version: [pc |-> "called"], then its return

loaderVars == <<total_deps, loaded_deps, cols, digits, mutex, shown>>
incVars == <<incpc, inctmp>>
gatherVars == <<lockfile, section, gkind, gitem, gpos, gdeps, gfound, gstatus>>
fetchVars == <<tree, node, task, registry>>
walkVars == <<manifests, wstack, wlock, wstatus, wlen>>
cliVars == <<mainpc, state, applied, event>>
apiVars == <<api_body, api_version, api_ret>>
vars == <<total_deps, loaded_deps, cols, digits, mutex, shown, incpc, inctmp,
          lockfile, section, gkind, gitem, gpos, gdeps, gfound, gstatus,
          tree, node, task, registry,
          manifests, wstack, wlock, wstatus, wlen,
          mainpc, state, applied, event,
          api_body, api_version, api_ret>>

----------------------------------------------------------------------------
(* Generic helpers *)

Min(a, b) == IF a < b THEN a ELSE b

Range(s) == {s[i] : i \in DOMAIN s}

\* All sequences over S of length at most n
SeqsUpTo(S, n) == UNION {[1..k -> S] : k \in 0..n}

----------------------------------------------------------------------------
(* loading.rs *)

\* Most threads calling inc_loader at once / largest total in SpecLoader
MaxTasks == 3
MaxTotal == 4

\* terminal widths returned by crossterm::terminal::size()
TermWidths == {20, 80}

\* fn length(n, base): number of digits of n in the given base
RECURSIVE length_loop(_, _, _, _)
length_loop(n, base, power, count) ==
    IF n >= power
    THEN IF power >= 1000000000   \* power.checked_mul(10) overflows a u32
         THEN count + 1
         ELSE length_loop(n, base, power * base, count + 1)
    ELSE count

length(n, base) == length_loop(n, base, base, 1)

\* init_loader: the LoaderInner it constructs
init_loader(total, width) ==
    [total_deps  |-> total,
     loaded_deps |-> 0,
     digits      |-> length(total, 10),
     cols        |-> Min(total, width - 2 - length(total, 10) * 2 - 7)]

\* self.0.lock(): the guard is granted only while nobody holds the mutex
LockFree_NoMutex(m) == TRUE

LockFree(m) == m = 0

\* the cell index computed from loaded instead of loaded - 1
BarIndex_NoMinusOne(c, loaded, total) == ((10000 * c * loaded) \div total) \div 10000

\* inc_loader, the body run under the guard:
\* index = 10000 * cols * (loaded - 1) / total / 10000; perc = 100 * loaded / total
BarIndex(c, loaded, total) == ((10000 * c * (loaded - 1)) \div total) \div 10000

\* the percentage rounded up instead of truncated
Perc_Ceil(loaded, total) == (100 * loaded + total - 1) \div total

Perc(loaded, total) == (100 * loaded) \div total

Threads == 1..MaxTasks

\* let mut state = self.0.lock().unwrap();
IncLock(t) ==
    /\ incpc[t] = "call"
    /\ LockFree(mutex)
    /\ mutex' = t
    /\ incpc' = [incpc EXCEPT ![t] = "locked"]
    /\ UNCHANGED <<total_deps, loaded_deps, cols, digits, shown, inctmp>>
    /\ UNCHANGED <<gatherVars, fetchVars, walkVars, cliVars, apiVars>>

\* *loaded_deps += 1, the read half
IncLoad(t) ==
    /\ incpc[t] = "locked"
    /\ inctmp' = [inctmp EXCEPT ![t] = loaded_deps]
    /\ incpc' = [incpc EXCEPT ![t] = "loaded"]
    /\ UNCHANGED loaderVars
    /\ UNCHANGED <<gatherVars, fetchVars, walkVars, cliVars, apiVars>>

\* *loaded_deps += 1, the write half, then index, perc and the queued output
IncStore(t) ==
    /\ incpc[t] = "loaded"
    /\ loaded_deps' = inctmp[t] + 1
    /\ shown' = [index  |-> BarIndex(cols, inctmp[t] + 1, total_deps),
                 perc   |-> Perc(inctmp[t] + 1, total_deps),
                 loaded |-> inctmp[t] + 1]
    /\ incpc' = [incpc EXCEPT ![t] = "stored"]
    /\ UNCHANGED <<total_deps, cols, digits, mutex, inctmp>>
    /\ UNCHANGED <<gatherVars, fetchVars, walkVars, cliVars, apiVars>>

\* the guard is dropped when inc_loader returns
IncUnlock(t) ==
    /\ incpc[t] = "stored"
    /\ mutex' = IF mutex = t THEN 0 ELSE mutex
    /\ incpc' = [incpc EXCEPT ![t] = "done"]
    /\ UNCHANGED <<total_deps, loaded_deps, cols, digits, shown, inctmp>>
    /\ UNCHANGED <<gatherVars, fetchVars, walkVars, cliVars, apiVars>>

\* no crates.io request is being looked at
ApiIdle ==
    /\ api_body = [kind |-> "empty"]
    /\ api_version = <<>>
    /\ api_ret = [pc |-> "idle"]

\* main has not got past the fetch phase: no State, nothing applied
CliIdle ==
    /\ mainpc = "fetch"
    /\ state = [some |-> FALSE]
    /\ applied = <<>>
    /\ event = "none"

FetchIdle ==
    /\ tree = <<>>
    /\ node = <<>>
    /\ task = <<>>
    /\ registry = <<>>

WalkIdle ==
    /\ manifests = <<>>
    /\ wstack = <<>>
    /\ wlock = <<>>
    /\ wstatus = "done"
    /\ wlen = [some |-> FALSE]

GatherIdle ==
    /\ lockfile = <<>>
    /\ section = <<>>
    /\ gkind = "Normal"
    /\ gitem = "absent"
    /\ gpos = 1
    /\ gdeps = <<>>
    /\ gfound = <<>>
    /\ gstatus = "done"

\* N threads (N <= total) are about to call inc_loader on clones of one Loader
InitLoader ==
    /\ \E total \in 1..MaxTotal, width \in TermWidths :
          LET st == init_loader(total, width) IN
          /\ total_deps = st.total_deps
          /\ loaded_deps = st.loaded_deps
          /\ cols = st.cols
          /\ digits = st.digits
    /\ mutex = 0
    /\ shown = [index |-> 0, perc |-> 0, loaded |-> 0]
    /\ \E n \in 1..MaxTasks :
          /\ n <= total_deps
          /\ incpc = [t \in Threads |-> IF t <= n THEN "call" ELSE "absent"]
    /\ inctmp = [t \in Threads |-> 0]
    /\ GatherIdle
    /\ FetchIdle
    /\ WalkIdle
    /\ CliIdle
    /\ ApiIdle

NextLoader ==
    \E t \in Threads : IncLock(t) \/ IncLoad(t) \/ IncStore(t) \/ IncUnlock(t)

SpecLoader == InitLoader /\ [][NextLoader]_vars

Callers == {t \in Threads : incpc[t] # "absent"}

\* C3: N threads each call inc_loader once on clones of one Loader; once all
\* of them have returned, loaded_deps is exactly N (starting from 0), under
\* every interleaving of their lock / read / write / unlock steps.
C3_FinalCountIsN ==
    (\A t \in Callers : incpc[t] = "done") => loaded_deps = Cardinality(Callers)

\* C3 witness: three threads have all returned from inc_loader
C3_Witness ==
    /\ Cardinality(Callers) = 3
    /\ \A t \in Callers : incpc[t] = "done"
    /\ loaded_deps = 3


----------------------------------------------------------------------------
(* Values shared by gathering and fetching *)

\* Option<T>
None == [some |-> FALSE]

Some(x) == [some |-> TRUE, val |-> x]

\* A version string "a.b.c" is the sequence of its dot-separated numbers;
\* semver::Version::parse accepts exactly three of them.
ParseVersion(s) ==
    IF Len(s) = 3
    THEN [ok |-> TRUE, major |-> s[1], minor |-> s[2], patch |-> s[3]]
    ELSE [ok |-> FALSE]

\* Version::to_string
VersionToString(v) == <<v.major, v.minor, v.patch>>

\* Ord for semver::Version (no pre-release parts): major, minor, patch
VersionLess(a, b) ==
    \/ a.major < b.major
    \/ a.major = b.major /\ a.minor < b.minor
    \/ a.major = b.major /\ a.minor = b.minor /\ a.patch < b.patch

VersionLeq(a, b) == ~VersionLess(b, a)

\* A requirement string is [op, ver]: the operator text and the version text.
\* VersionReq::parse: a bare version means caret; the version must parse.
ReqOps == {"=", "^", ">=", "~"}

ParseReq(s) ==
    LET v == ParseVersion(s.ver) IN
    IF v.ok /\ s.op \in ReqOps \cup {""}
    THEN [ok |-> TRUE, op |-> IF s.op = "" THEN "^" ELSE s.op, v |-> v]
    ELSE [ok |-> FALSE]

\* VersionReq::matches for a single comparator
Matches(req, ver) ==
    CASE req.op = "="  -> /\ ver.major = req.v.major
                          /\ ver.minor = req.v.minor
                          /\ ver.patch = req.v.patch
      [] req.op = ">=" -> VersionLeq(req.v, ver)
      [] req.op = "~"  -> /\ ver.major = req.v.major
                          /\ ver.minor = req.v.minor
                          /\ ver.patch >= req.v.patch
      [] req.op = "^"  ->
            IF req.v.major > 0
            THEN ver.major = req.v.major /\ VersionLeq(req.v, ver)
            ELSE IF req.v.minor > 0
            THEN /\ ver.major = 0
                 /\ ver.minor = req.v.minor
                 /\ ver.patch >= req.v.patch
            ELSE /\ ver.major = 0
                 /\ ver.minor = 0
                 /\ ver.patch = req.v.patch

\* the source locator of crates.io and one of an alternate registry
CratesIoSource == "registry+https://github.com/rust-lang/crates.io-index"

AltSource == "registry+https://example.com/private-index"

\* DependencyKind, in declaration order
Kinds == <<"Normal", "Dev", "Build", "Workspace">>

----------------------------------------------------------------------------
(* cargo.rs: find_matching_package and extract_dependencies_from_sections *)

\* Longest lock file
MaxLock == 3

\* crate names, in String order
Names == <<"bar", "baz", "foo", "qux">>

NameRank(a) == CHOOSE i \in DOMAIN Names : Names[i] = a

NameLess(a, b) == NameRank(a) < NameRank(b)

PackageNames == {"bar", "foo"}

NameLeq(a, b) == a = b \/ NameLess(a, b)

LockVersions == {[ok |-> TRUE, major |-> 1, minor |-> 9, patch |-> 0],
                 [ok |-> TRUE, major |-> 2, minor |-> 0, patch |-> 0]}

LockSources == {Some(CratesIoSource)}

LockPackages == [name : PackageNames, version : LockVersions, source : LockSources]

\* Cargo.lock lists its packages sorted by name
SortedByName(packages) ==
    \A i, j \in DOMAIN packages : i < j => NameLeq(packages[i].name, packages[j].name)

Lockfiles == {l \in SeqsUpTo(LockPackages, MaxLock) : SortedByName(l)}

\* packages.binary_search_by_key(&package_name, |p| p.name.as_str()):
\* Ok(i) for some i whose name is equal (which one is unspecified when
\* several are), Err when there is none.
BinarySearchByName(packages, package_name) ==
    {i \in DOMAIN packages : packages[i].name = package_name}

\* ScanForward without the take_while: the scan runs on into other names
ScanForward_NoTakeWhile(packages, package_name, req, i) ==
    LET hits == {j \in (i + 1)..Len(packages) : Matches(req, packages[j].version)}
    IN  IF hits = {} THEN 0 ELSE CHOOSE j \in hits : \A h \in hits : j <= h

\* packages[i + 1..].iter().take_while(name == package_name).find(matches)
ScanForward(packages, package_name, req, i) ==
    LET run == {j \in (i + 1)..Len(packages) :
                  \A k \in (i + 1)..j : packages[k].name = package_name}
        hits == {j \in run : Matches(req, packages[j].version)}
    IN  IF hits = {} THEN 0 ELSE CHOOSE j \in hits : \A h \in hits : j <= h

\* ScanBackward left out: only the entries after the landing index are tried
ScanBackward_Missing(packages, package_name, req, i) == 0

\* ScanBackward without the rev(): the first entry of the run that matches
ScanBackward_Farthest(packages, package_name, req, i) ==
    LET run == {j \in 1..(i - 1) :
                  \A k \in j..(i - 1) : packages[k].name = package_name}
        hits == {j \in run : Matches(req, packages[j].version)}
    IN  IF hits = {} THEN 0 ELSE CHOOSE j \in hits : \A h \in hits : j <= h

\* packages[..i].iter().rev().take_while(name == package_name).find(matches)
ScanBackward(packages, package_name, req, i) ==
    LET run == {j \in 1..(i - 1) :
                  \A k \in j..(i - 1) : packages[k].name = package_name}
        hits == {j \in run : Matches(req, packages[j].version)}
    IN  IF hits = {} THEN 0 ELSE CHOOSE j \in hits : \A h \in hits : j >= h

\* find_matching_package falling back to the landing entry instead of panicking
find_matching_package_Fallback(packages, package_name, req, i) ==
    IF Matches(req, packages[i].version)
    THEN i
    ELSE LET fwd == IF i < Len(packages)
                    THEN ScanForward(packages, package_name, req, i) ELSE 0
             bwd == IF i > 1
                    THEN ScanBackward(packages, package_name, req, i) ELSE 0
         IN  IF fwd # 0 THEN fwd ELSE IF bwd # 0 THEN bwd ELSE i

\* find_matching_package after the binary search landed on index i (1-based):
\* the index of the package returned, or 0 for the panic at the end
find_matching_package(packages, package_name, req, i) ==
    IF Matches(req, packages[i].version)
    THEN i
    ELSE LET fwd == IF i < Len(packages)
                    THEN ScanForward(packages, package_name, req, i) ELSE 0
             bwd == IF i > 1
                    THEN ScanBackward(packages, package_name, req, i) ELSE 0
         IN  IF fwd # 0 THEN fwd ELSE bwd

\* Manifest entries: a TOML value is absent (None), a string, or something else
Str(x) == [some |-> TRUE, str |-> TRUE, val |-> x]

NotStr == [some |-> TRUE, str |-> FALSE]

\* e.as_str()
AsStr(item) == IF item.some /\ item.str THEN Some(item.val) ELSE None

ReqStrings == {[op |-> "=",  ver |-> <<2, 0, 0>>],
               [op |-> "",   ver |-> <<1, 9, 0>>],
               [op |-> ">=", ver |-> <<1, 9, 0>>],
               [op |-> "=",  ver |-> <<2, 0>>]}

EntryShapes == {"string", "inline", "table", "other"}

\* the target of a `path` key
LocalPath == "../local"

\* One entry of a dependencies table.  For a bare string `version` is the
\* string itself; for tables `version`, `package`, `workspace` and `path`
\* are the keys' values (workspace: the key is present and true).
Entries ==
    [key : PackageNames, shape : {"string"},
     version : {Str(r) : r \in ReqStrings}, package : {None},
     workspace : {FALSE}, path : {None}]
    \cup
    [key : PackageNames, shape : {"inline", "table"},
     version : {None} \cup {Str(r) : r \in ReqStrings},
     package : {None} \cup {Str(n) : n \in PackageNames},
     workspace : {FALSE}, path : {None}]
    \cup
    [key : PackageNames, shape : {"inline"},
     version : {None, Str([op |-> "", ver |-> <<1, 9, 0>>])},
     package : {None},
     workspace : BOOLEAN, path : {None, Str(LocalPath)}]
    \cup
    [key : PackageNames, shape : {"inline"},
     version : {Str([op |-> "", ver |-> <<1, 9, 0>>])},
     package : {NotStr},
     workspace : {FALSE}, path : {None}]
    \cup
    [key : PackageNames, shape : {"other"}, version : {NotStr}, package : {None},
     workspace : {FALSE}, path : {None}]

\* a table has each key once
Sections ==
    {s \in SeqsUpTo(Entries, Cardinality(PackageNames)) :
        \A i, j \in DOMAIN s : i # j => s[i].key # s[j].key}

\* EntryRequest without the catch-all arm: any other value is printed and
\* taken as the requirement text
EntryRequest_NoCatchAll(e) ==
    CASE e.shape = "string" -> Some([version_req |-> e.version.val, package |-> None])
      [] e.shape \in {"inline", "table"} ->
            IF AsStr(e.version).some
            THEN Some([version_req |-> AsStr(e.version).val,
                       package |-> AsStr(e.package)])
            ELSE None
      [] OTHER -> Some([version_req |-> [op |-> "", ver |-> <<>>], package |-> None])

\* lines 263-278: (version_req, package) of an entry, or None when skipped
EntryRequest(e) ==
    CASE e.shape = "string" -> Some([version_req |-> e.version.val, package |-> None])
      [] e.shape \in {"inline", "table"} ->
            IF AsStr(e.version).some
            THEN Some([version_req |-> AsStr(e.version).val,
                       package |-> AsStr(e.package)])
            ELSE None
      [] OTHER -> None

\* ResolutionName ignoring the rename: the lock file is searched under the key
ResolutionName_Key(e, request) == e.key

\* lines 283-284: package.as_ref().map(..).unwrap_or(name)
ResolutionName(e, request) ==
    IF request.package.some THEN request.package.val ELSE e.key

\* lines 289-295
MakeCargoDependency(e, kind, package) ==
    [name    |-> e.key,
     package |-> package.name,
     version |-> VersionToString(package.version),
     kind    |-> kind,
     source  |-> package.source]

\* lines 252-260: no section, or one that is not table-like, returns vec![];
\* otherwise flat_map starts on the table's entries
GatherOpen ==
    /\ gstatus = "called"
    /\ gstatus' = IF gitem = "table" /\ section # <<>> THEN "reading" ELSE "done"
    /\ UNCHANGED <<lockfile, section, gkind, gitem, gpos, gdeps, gfound>>
    /\ UNCHANGED <<loaderVars, incVars, fetchVars, walkVars, cliVars, apiVars>>

\* the closure of flat_map visits section[gpos]
GatherSkip ==
    /\ gstatus = "reading"
    /\ ~EntryRequest(section[gpos]).some
    /\ gpos' = gpos + 1
    /\ gstatus' = IF gpos' > Len(section) THEN "done" ELSE "reading"
    /\ UNCHANGED <<lockfile, section, gkind, gitem, gdeps, gfound>>
    /\ UNCHANGED <<loaderVars, incVars, fetchVars, walkVars, cliVars, apiVars>>

\* a panic unwinds out of gathering: nothing is returned
GatherPanicked ==
    /\ gpos' = gpos + 1
    /\ gstatus' = "panicked"
    /\ gdeps' = <<>>
    /\ gfound' = <<>>
    /\ UNCHANGED <<lockfile, section, gkind, gitem>>
    /\ UNCHANGED <<loaderVars, incVars, fetchVars, walkVars, cliVars, apiVars>>

GatherBadReq ==
    /\ gstatus = "reading"
    /\ EntryRequest(section[gpos]).some
    /\ ~ParseReq(EntryRequest(section[gpos]).val.version_req).ok
    /\ GatherPanicked

GatherResolve ==
    /\ gstatus = "reading"
    /\ EntryRequest(section[gpos]).some
    /\ LET e == section[gpos]
           request == EntryRequest(e).val
           req == ParseReq(request.version_req)
           package_name == ResolutionName(e, request)
           landings == BinarySearchByName(lockfile, package_name)
       IN  /\ req.ok
           /\ IF landings = {}
              THEN GatherPanicked
              ELSE \E i \in landings :
                     LET found == find_matching_package(lockfile, package_name, req, i)
                     IN  IF found = 0
                         THEN GatherPanicked
                         ELSE /\ gdeps' = Append(gdeps,
                                     MakeCargoDependency(e, gkind, lockfile[found]))
                              /\ gfound' = Append(gfound,
                                     [package_name |-> package_name, req |-> req,
                                      landed |-> i, index |-> found])
                              /\ gpos' = gpos + 1
                              /\ gstatus' = IF gpos' > Len(section)
                                            THEN "done" ELSE "reading"
                              /\ UNCHANGED <<lockfile, section, gkind, gitem>>
                              /\ UNCHANGED <<loaderVars, incVars, fetchVars, walkVars, cliVars, apiVars>>

LoaderIdle ==
    /\ total_deps = 0
    /\ loaded_deps = 0
    /\ cols = 0
    /\ digits = 1
    /\ mutex = 0
    /\ shown = [index |-> 0, perc |-> 0, loaded |-> 0]
    /\ incpc = [t \in Threads |-> "absent"]
    /\ inctmp = [t \in Threads |-> 0]

\* the section kinds drawn for gathering
GatherKinds == {"Normal", "Workspace"}

\* extract_dependencies_from_sections is called with one of the manifest's
\* sections, its kind and the lock file
InitGather ==
    /\ lockfile \in Lockfiles
    /\ \/ gitem = "table" /\ section \in Sections
       \/ gitem \in {"absent", "value"} /\ section = <<>>
    /\ gkind \in GatherKinds
    /\ gpos = 1
    /\ gdeps = <<>>
    /\ gfound = <<>>
    /\ gstatus = "called"
    /\ LoaderIdle
    /\ FetchIdle
    /\ WalkIdle
    /\ CliIdle
    /\ ApiIdle

NextGather == GatherOpen \/ GatherSkip \/ GatherBadReq \/ GatherResolve

SpecGather == InitGather /\ [][NextGather]_vars



----------------------------------------------------------------------------
(* Claims about lock resolution (SpecGather) *)

\* what the manifest asks for, read off the entry itself
WantedName(e) ==
    IF e.shape # "string" /\ e.package.some /\ e.package.str
    THEN e.package.val ELSE e.key

WantedReq(e) == ParseReq(e.version.val)

AsksForPackage(e) ==
    /\ e.shape \in {"string", "inline", "table"}
    /\ e.version.some
    /\ e.version.str

\* lock entries with the wanted name whose version satisfies the requirement
Satisfying(e) ==
    {i \in DOMAIN lockfile :
        /\ lockfile[i].name = WantedName(e)
        /\ Matches(WantedReq(e), lockfile[i].version)}

SameNamed(e) == {i \in DOMAIN lockfile : lockfile[i].name = WantedName(e)}

EntryOf(d) == CHOOSE e \in Range(section) : e.key = d.name

Visited == {section[k] : k \in 1..(gpos - 1)}

\* C4: every declaration in the declaration set is paired with a lock entry
\* whose name is the entry's resolution name (`package` if present, else the
\* key) and whose version satisfies the declared requirement; and when
\* gathering returns, every entry that asks for a package has its declaration
\* (otherwise gathering panicked).
C4_DeclarationsResolved ==
    /\ \A k \in DOMAIN gdeps :
          LET d == gdeps[k]
              e == EntryOf(d)
          IN  /\ AsksForPackage(e)
              /\ WantedReq(e).ok
              /\ d.package = WantedName(e)
              /\ \E i \in Satisfying(e) :
                    /\ i = gfound[k].index
                    /\ d.version = VersionToString(lockfile[i].version)
                    /\ d.source = lockfile[i].source
    /\ gstatus = "done" =>
          \A e \in Range(section) :
              AsksForPackage(e) => \E k \in DOMAIN gdeps : gdeps[k].name = e.key

\* C4 witness: a renamed entry (`package` differs from the key) was resolved
\* in a lock file that also holds a same-named entry that does not satisfy
C4_Witness ==
    /\ gstatus = "done"
    /\ \E k \in DOMAIN gdeps :
          /\ gdeps[k].package # gdeps[k].name
          /\ \E i \in SameNamed(EntryOf(gdeps[k])) : i \notin Satisfying(EntryOf(gdeps[k]))

\* C5: when several lock entries share the resolution name and at least one
\* of them satisfies the requirement, the entry just visited is resolved to a
\* satisfying same-named entry, wherever in the run the binary search landed.
C5_RunWithMatchResolves ==
    \A k \in 1..(gpos - 1) :
        LET e == section[k] IN
        (/\ AsksForPackage(e)
         /\ WantedReq(e).ok
         /\ Cardinality(SameNamed(e)) >= 2
         /\ Satisfying(e) # {})
        => \/ \E n \in DOMAIN gdeps :
                /\ gdeps[n].name = e.key
                /\ gfound[n].index \in Satisfying(e)
           \/ (gstatus = "panicked" /\ k < gpos - 1)   \* a later entry panicked

\* C5 witness: a run of three same-named entries, the search landed on the
\* last one and the only satisfying entry is the first
C5_Witness ==
    \E n \in DOMAIN gfound :
        /\ Cardinality(SameNamed(EntryOf(gdeps[n]))) = 3
        /\ Satisfying(EntryOf(gdeps[n])) = {gfound[n].index}
        /\ gfound[n].landed = gfound[n].index + 2

\* C5, second witness: landed on the first of the run, found the last
C5_WitnessForward ==
    \E n \in DOMAIN gfound :
        /\ Cardinality(SameNamed(EntryOf(gdeps[n]))) = 3
        /\ Satisfying(EntryOf(gdeps[n])) = {gfound[n].index}
        /\ gfound[n].landed = gfound[n].index - 2

\* C6: an entry that asks for a package whose resolution name has no lock
\* entry, or only entries that do not satisfy the requirement, makes
\* gathering panic: no declaration set is produced.
C6_UnresolvableIsFatal ==
    \A e \in Visited :
        (AsksForPackage(e) /\ WantedReq(e).ok /\ Satisfying(e) = {})
        => (gstatus = "panicked" /\ gdeps = <<>>)

\* C6 witness: same-named entries exist, none satisfies, gathering panicked
C6_Witness ==
    /\ gstatus = "panicked"
    /\ \E e \in Visited :
          /\ AsksForPackage(e) /\ WantedReq(e).ok
          /\ SameNamed(e) # {}
          /\ Satisfying(e) = {}

\* C6, second witness: the name is absent from the lock file
C6_WitnessAbsent ==
    /\ gstatus = "panicked"
    /\ \E e \in Visited :
          /\ AsksForPackage(e) /\ WantedReq(e).ok
          /\ SameNamed(e) = {}
          /\ lockfile # <<>>



\* the lock entries named f.package_name that satisfy f.req
SatisfyingOf(f) ==
    {j \in DOMAIN lockfile :
        /\ lockfile[j].name = f.package_name
        /\ Matches(f.req, lockfile[j].version)}

\* C26: of the same-named lock entries that satisfy the requirement,
\* find_matching_package returns the one the binary search landed on if that
\* one satisfies; otherwise the nearest one after the landing index; and only
\* if none after it satisfies, the nearest one before it. The entry returned
\* is never one of a different name.
C26_NearestAfterThenBefore ==
    \A n \in DOMAIN gfound :
        LET f == gfound[n]
            sat == SatisfyingOf(f)
            after == {j \in sat : j > f.landed}
            before == {j \in sat : j < f.landed}
        IN  /\ lockfile[f.index].name = f.package_name
            /\ lockfile[f.landed].name = f.package_name
            /\ IF f.landed \in sat THEN f.index = f.landed
               ELSE IF after # {}
               THEN f.index \in after /\ \A j \in after : f.index <= j
               ELSE f.index \in before /\ \A j \in before : f.index >= j

\* C26 witness: three same-named entries, the search landed on the middle
\* one, which does not satisfy, while both its neighbours do: the one after
\* it was returned
C26_Witness ==
    \E n \in DOMAIN gfound :
        /\ gfound[n].landed = 2
        /\ SatisfyingOf(gfound[n]) = {1, 3}
        /\ gfound[n].index = 3

\* C26, second witness: landed on the last of the run, which does not
\* satisfy; both entries before it do, and the nearer one was returned
C26_WitnessBefore ==
    \E n \in DOMAIN gfound :
        /\ gfound[n].landed = 3
        /\ SatisfyingOf(gfound[n]) = {1, 2}
        /\ gfound[n].index = 2

\* C26, third witness: the entry after the landing index has another name
\* and a version that would satisfy; the scan stopped short of it and the
\* entry before the landing index was returned
C26_WitnessOtherName ==
    \E n \in DOMAIN gfound :
        /\ gfound[n].landed = 2
        /\ gfound[n].index = 1
        /\ Len(lockfile) = 3
        /\ lockfile[3].name # gfound[n].package_name
        /\ Matches(gfound[n].req, lockfile[3].version)

----------------------------------------------------------------------------
(* cargo.rs: the fetch phase, retrieve_outdated_dependencies *)

\* Most declarations in the whole workspace tree
MaxDeps == 2

\* Most declarations of one manifest in the workspace walk
MaxOwn == 3

\* The workspace trees, as parent[n] of every node (node 1 is the root): a
\* single crate, one member, two sibling members, a member inside a member
TreeShapes == {<<0>>, <<0, 1>>, <<0, 1, 1>>, <<0, 1, 2>>}

NodeIds == UNION {DOMAIN p : p \in TreeShapes}

\* the key of each member in its parent's workspace_members map
MemberPaths == <<".", "a", "b">>

\* the locked version every declaration carries in the fetch phase
LockedVersion == [ok |-> TRUE, major |-> 1, minor |-> 9, patch |-> 0]

CargoDependencyValue(kind, name, source) ==
    [name |-> name, package |-> name,
     version |-> VersionToString(LockedVersion),
     kind |-> kind, source |-> source]

\* Two families of declarations are drawn for the fetch phase.
\* Outcomes: the i-th declaration of the tree is the i-th crate name, of any
\* source (crates.io, alternate registry, none).
OutcomeDecls(d) ==
    {decl \in [1..d -> {CargoDependencyValue("Normal", n, src) :
                           n \in Range(Names),
                           src \in {None, Some(CratesIoSource), Some(AltSource)}}] :
        \A i \in 1..d : decl[i].name = Names[i]}

\* Ordering: any of these (kind, name) on either registry
DeclKeys == {<<"Normal", "bar">>, <<"Normal", "foo">>, <<"Dev", "bar">>}

OrderDecls(d) ==
    [1..d -> {CargoDependencyValue(key[1], key[2], src) :
                key \in DeclKeys,
                src \in {Some(CratesIoSource), Some(AltSource)}}]

KindRank(kind) == CHOOSE i \in DOMAIN Kinds : Kinds[i] = kind

\* get_cargo_dependencies chains the four sections in kind order, and a
\* table has each name once
ValidDependencies(ds) ==
    \A i, j \in DOMAIN ds :
        i < j => /\ KindRank(ds[i].kind) <= KindRank(ds[j].kind)
                 /\ <<ds[i].kind, ds[i].name>> # <<ds[j].kind, ds[j].name>>

Children(n) == {c \in DOMAIN tree : tree[c].parent = n}

\* len adding the members' own declarations only, not their len()
len_OneLevel(n) ==
    Len(tree[n].dependencies)
    + Cardinality({x \in (DOMAIN tree) \X (1..(MaxOwn + 1)) :
                     x[1] \in Children(n) /\ x[2] \in DOMAIN tree[x[1]].dependencies})

\* CargoDependencies::len
RECURSIVE len(_)
len(n) ==
    LET kids == Children(n)
        RECURSIVE Sum(_)
        Sum(S) == IF S = {} THEN 0
                  ELSE LET c == CHOOSE x \in S : TRUE IN len(c) + Sum(S \ {c})
    IN  Len(tree[n].dependencies) + Sum(kids)

\* the workspace_path argument: None at the root, Some(member) below it
WorkspacePath(n) == IF n = 1 THEN None ELSE Some(tree[n].member)

\* registry answers: the latest version text, no such crate, an error
\* value, or a panic inside the client
LatestStrings == {<<1, 9, 0>>, <<1, 10, 0>>, <<1, 9>>}

CratesIoResponses ==
    {[tag |-> "found", latest |-> l] : l \in LatestStrings}
    \cup {[tag |-> "none"], [tag |-> "err"], [tag |-> "abort"]}

\* info() returns a parsed semver::Version, so its text always parses
AltResponses ==
    {[tag |-> "found", latest |-> l] : l \in {x \in LatestStrings : ParseVersion(x).ok}}
    \cup {[tag |-> "none"], [tag |-> "err"], [tag |-> "abort"]}

\* the Dependency built with the root's label and path, whatever the node
MakeDependency_RootLabel(dep, latest, ws_member, ws_path) ==
    [name |-> dep.name,
     current_version |-> dep.version,
     latest_version |-> latest,
     kind |-> dep.kind,
     workspace_member |-> None,
     workspace_path |-> None]

\* the Dependency both clients build
MakeDependency(dep, latest, ws_member, ws_path) ==
    [name |-> dep.name,
     current_version |-> dep.version,
     latest_version |-> latest,
     kind |-> dep.kind,
     workspace_member |-> ws_member,
     workspace_path |-> ws_path]

\* api.rs fetch_package_from_crates_io on a given answer of crates.io:
\* [panicked, ret] with ret an Option<Dependency>
fetch_package_from_crates_io(dep, ws_member, ws_path, resp) ==
    CASE resp.tag \in {"err", "abort"} -> [panicked |-> TRUE]
      [] resp.tag = "none" -> [panicked |-> FALSE, ret |-> None]
      [] OTHER ->
            LET parsed_current_version == ParseVersion(dep.version)
                parsed_latest_version == ParseVersion(resp.latest)
            IN  IF ~parsed_current_version.ok \/ ~parsed_latest_version.ok
                THEN [panicked |-> TRUE]
                ELSE IF VersionLess(parsed_current_version, parsed_latest_version)
                THEN [panicked |-> FALSE,
                      ret |-> Some(MakeDependency(dep, resp.latest, ws_member, ws_path))]
                ELSE [panicked |-> FALSE, ret |-> None]

\* Result<Option<Dependency>>
Ok(x) == [ok |-> TRUE, val |-> x]

Err == [ok |-> FALSE]

\* info.rs fetch_package_from_source on a given answer of the registry:
\* [panicked, ret] with ret a CargoResult<Option<Dependency>>
fetch_package_from_source(dep, ws_member, ws_path, resp) ==
    CASE resp.tag = "abort" -> [panicked |-> TRUE]
      [] resp.tag = "err" -> [panicked |-> FALSE, ret |-> Err]
      [] resp.tag = "none" -> [panicked |-> FALSE, ret |-> Ok(None)]
      [] OTHER -> [panicked |-> FALSE,
                   ret |-> Ok(Some(MakeDependency(dep, resp.latest, ws_member, ws_path)))]

IsCratesIo(dep) == dep.source.some /\ dep.source.val = CratesIoSource

IsAltRegistry(dep) == dep.source.some /\ dep.source.val # CratesIoSource

Indices(seq) == [i \in DOMAIN seq |-> i]

\* lines 84-97, the classification loop: the two vectors it fills, as
\* indices into dependencies
crates_io_deps(dependencies) ==
    SelectSeq(Indices(dependencies), LAMBDA k : IsCratesIo(dependencies[k]))

\* alt_registry_deps filled by a second `if` instead of the `else`: every
\* declaration with a source lands in it
alt_registry_deps_NoElse(dependencies) ==
    SelectSeq(Indices(dependencies), LAMBDA k : dependencies[k].source.some)

alt_registry_deps(dependencies) ==
    SelectSeq(Indices(dependencies), LAMBDA k : IsAltRegistry(dependencies[k]))

\* lines 108-138: one thread is spawned per element of each vector; the
\* clients whose threads were handed declaration k
ClientsOf(dependencies, k) ==
    (IF k \in Range(crates_io_deps(dependencies)) THEN <<"crates_io">> ELSE <<>>)
    \o (IF k \in Range(alt_registry_deps(dependencies)) THEN <<"alt">> ELSE <<>>)

\* lines 108-145: the handles in the order they are joined,
\* crates_io_threads then alt_threads (as indices into dependencies)
LookupOrder(n) ==
    crates_io_deps(tree[n].dependencies) \o alt_registry_deps(tree[n].dependencies)

\* the client behind the j-th handle of that chain
HandleClient(n, j) ==
    IF j <= Len(crates_io_deps(tree[n].dependencies)) THEN "crates_io" ELSE "alt"

\* every order a HashMap may iterate the members in
Orders(S) ==
    {o \in [1..Cardinality(S) -> S] : \A i, j \in DOMAIN o : i # j => o[i] # o[j]}

\* Ord for Dependency: kind, then name
DepLess(a, b) ==
    \/ KindRank(a.kind) < KindRank(b.kind)
    \/ KindRank(a.kind) = KindRank(b.kind) /\ NameLess(a.name, b.name)

\* Vec::sort is stable: an item goes after the items that are less and after
\* the earlier items that are not greater
SortedIndex(s, i) ==
    1 + Cardinality({j \in DOMAIN s :
                       \/ DepLess(s[j], s[i])
                       \/ j < i /\ ~DepLess(s[i], s[j])})

SortDeps(s) ==
    [p \in DOMAIN s |-> s[CHOOSE i \in DOMAIN s : SortedIndex(s, i) = p]]

\* Settle with the sort done before the members' items are merged in
Settle_SortBeforeMerge(n, frame) ==
    IF frame.joined = Len(LookupOrder(n)) /\ frame.wsjoined = Len(frame.ws_threads)
    THEN [frame EXCEPT
            !.pc = "done",
            !.deps = SortDeps(SelectSeq(frame.deps,
                                 LAMBDA e : e.workspace_path = WorkspacePath(n)))
                     \o SelectSeq(frame.deps,
                                  LAMBDA e : e.workspace_path # WorkspacePath(n))]
    ELSE frame

\* lines 162-164 once nothing is left to join: deps.sort() and return
Settle(n, frame) ==
    IF frame.joined = Len(LookupOrder(n)) /\ frame.wsjoined = Len(frame.ws_threads)
    THEN [frame EXCEPT !.pc = "done", !.deps = SortDeps(frame.deps)]
    ELSE frame

\* lines 71-138: the manifest map, the classification, and every spawn
NodeStart(n) ==
    /\ n \in DOMAIN node
    /\ node[n].pc = "called"
    /\ \E order \in Orders(Children(n)) :
          LET path == IF WorkspacePath(n).some THEN WorkspacePath(n).val ELSE "."
              frame == [node[n] EXCEPT !.pc = "joining",
                                       !.ws_threads = order,
                                       !.cargo_toml_files = (path :> n)]
          IN  node' = [m \in DOMAIN node |->
                         IF m = n THEN Settle(n, frame)
                         ELSE IF m \in Children(n)
                              THEN [node[m] EXCEPT !.pc = "called"]
                              ELSE node[m]]
    /\ task' = [task EXCEPT ![n] =
                  [k \in DOMAIN task[n] |->
                      LET clients == ClientsOf(tree[n].dependencies, k) IN
                      IF clients # <<>>
                      THEN [task[n][k] EXCEPT !.pc = "running", !.clients = clients]
                      ELSE task[n][k]]]
    /\ UNCHANGED <<tree, registry, loaderVars, incVars, gatherVars, walkVars, cliVars, apiVars>>

\* inc_loader as one step (its steps are those of SpecLoader)
IncLoader ==
    /\ loaded_deps' = loaded_deps + 1
    /\ shown' = [index  |-> BarIndex(cols, loaded_deps + 1, total_deps),
                 perc   |-> Perc(loaded_deps + 1, total_deps),
                 loaded |-> loaded_deps + 1]
    /\ UNCHANGED <<total_deps, cols, digits, mutex>>

\* the closure of one lookup thread (lines 114-120 and 130-136):
\* the registry call, then loader.inc_loader(), then the return value
LookupTask(n, k) ==
    /\ n \in DOMAIN task
    /\ k \in DOMAIN task[n]
    /\ task[n][k].pc = "running"
    /\ LET dep == tree[n].dependencies[k]
           client == task[n][k].clients[1]
       IN
       \E resp \in IF client = "crates_io" THEN registry.crates_io ELSE registry.alt :
          LET out == IF client = "crates_io"
                     THEN fetch_package_from_crates_io(
                              dep, tree[n].package_name, WorkspacePath(n), resp)
                     ELSE fetch_package_from_source(
                              dep, tree[n].package_name, WorkspacePath(n), resp)
          IN  IF out.panicked
              THEN /\ task' = [task EXCEPT ![n][k] =
                                 [@ EXCEPT !.pc = "panicked", !.resp = resp,
                                           !.via = Some(client)]]
                   /\ UNCHANGED loaderVars
              ELSE /\ task' = [task EXCEPT ![n][k] =
                                 [@ EXCEPT !.pc = "returned", !.resp = resp,
                                           !.ret = out.ret, !.incs = @ + 1,
                                           !.via = Some(client)]]
                   /\ IncLoader
    /\ UNCHANGED <<tree, node, registry, incVars, gatherVars, walkVars, cliVars, apiVars>>

\* t.join().ok().flatten() on a crates.io handle: a panicked thread is Err
JoinCratesIo_Unwrap(t) ==
    IF t.pc = "panicked" THEN [panicked |-> TRUE] ELSE [panicked |-> FALSE, item |-> t.ret]

JoinCratesIo(t) ==
    [panicked |-> FALSE, item |-> IF t.pc = "panicked" THEN None ELSE t.ret]

\* t.join().map(|e| e.ok()).ok().flatten().flatten() on an alternate handle
JoinAlt(t) ==
    [panicked |-> FALSE,
     item |-> IF t.pc = "panicked" THEN None
              ELSE IF t.ret.ok THEN t.ret.val ELSE None]

\* line 152: the filter keeps an item iff current < latest
IsOutdated_Leq(current, latest) == VersionLeq(current, latest)

IsOutdated(current, latest) == VersionLess(current, latest)

\* lines 140-154, one handle of the chain: join it, then filter its item
JoinLookup(n) ==
    /\ n \in DOMAIN node
    /\ node[n].pc = "joining"
    /\ node[n].joined < Len(LookupOrder(n))
    /\ LET k == LookupOrder(n)[node[n].joined + 1]
           t == task[n][k]
           got == IF HandleClient(n, node[n].joined + 1) = "crates_io"
                  THEN JoinCratesIo(t) ELSE JoinAlt(t)
       IN  /\ t.pc \in {"returned", "panicked"}
           /\ IF got.panicked
              THEN node' = [node EXCEPT ![n].pc = "panicked"]
              ELSE IF ~got.item.some
              THEN node' = [node EXCEPT ![n] =
                              Settle(n, [node[n] EXCEPT !.joined = @ + 1])]
              ELSE LET e == got.item.val
                       parsed_current_version == ParseVersion(e.current_version)
                       parsed_latest_version == ParseVersion(e.latest_version)
                   IN  IF ~parsed_current_version.ok \/ ~parsed_latest_version.ok
                       THEN node' = [node EXCEPT ![n].pc = "panicked"]
                       ELSE node' = [node EXCEPT ![n] =
                              Settle(n, [node[n] EXCEPT
                                  !.joined = @ + 1,
                                  !.deps = IF IsOutdated(parsed_current_version,
                                                         parsed_latest_version)
                                           THEN Append(@, e) ELSE @])]
    /\ UNCHANGED <<tree, task, registry, loaderVars, incVars, gatherVars, walkVars, cliVars, apiVars>>

\* HashMap::extend: the entries of `more` replace those with the same key
Extend(map, more) == more @@ map

\* JoinWs not waiting for the chain of lookup joins: a member is joined while
\* lookup handles are still unjoined
JoinWs_BeforeLookups(n) ==
    /\ n \in DOMAIN node
    /\ node[n].pc = "joining"
    /\ node[n].wsjoined < Len(node[n].ws_threads)
    /\ LET c == node[n].ws_threads[node[n].wsjoined + 1] IN
       /\ node[c].pc \in {"done", "panicked"}
       /\ IF node[c].pc = "panicked"
          THEN node' = [node EXCEPT ![n].pc = "panicked"]
          ELSE node' = [node EXCEPT ![n] =
                  Settle(n, [node[n] EXCEPT
                      !.wsjoined = @ + 1,
                      !.deps = @ \o node[c].deps,
                      !.cargo_toml_files = Extend(@, node[c].cargo_toml_files)])]
    /\ UNCHANGED <<tree, task, registry, loaderVars, incVars, gatherVars, walkVars, cliVars, apiVars>>

\* lines 156-160, one handle of ws_threads: h.join().unwrap(), then the merge
JoinWs(n) ==
    /\ n \in DOMAIN node
    /\ node[n].pc = "joining"
    /\ node[n].joined = Len(LookupOrder(n))
    /\ node[n].wsjoined < Len(node[n].ws_threads)
    /\ LET c == node[n].ws_threads[node[n].wsjoined + 1] IN
       /\ node[c].pc \in {"done", "panicked"}
       /\ IF node[c].pc = "panicked"
          THEN node' = [node EXCEPT ![n].pc = "panicked"]
          ELSE node' = [node EXCEPT ![n] =
                  Settle(n, [node[n] EXCEPT
                      !.wsjoined = @ + 1,
                      !.deps = @ \o node[c].deps,
                      !.cargo_toml_files = Extend(@, node[c].cargo_toml_files)])]
    /\ UNCHANGED <<tree, task, registry, loaderVars, incVars, gatherVars, walkVars, cliVars, apiVars>>

\* the width crossterm::terminal::size() reports during the fetch phase
FetchTermWidth == 80

\* the declarations of node n among decl, each owned by owner[i]
OwnedBy(decl, owner, n) ==
    LET idx == SelectSeq(Indices(decl), LAMBDA i : owner[i] = n)
    IN  [j \in DOMAIN idx |-> decl[idx[j]]]

\* the registries answer anything / always a newer version
AnyAnswer == [crates_io |-> CratesIoResponses, alt |-> AltResponses]

NewerAnswer ==
    [crates_io |-> {[tag |-> "found", latest |-> <<1, 10, 0>>]},
     alt       |-> {[tag |-> "found", latest |-> <<1, 10, 0>>]}]

\* main, lines 28-32 on the gathered tree: total_deps = len(), init_loader,
\* and the root call retrieve_outdated_dependencies(None, loader) made
StartFetch ==
    /\ node = [n \in DOMAIN tree |->
                 [pc |-> IF n = 1 THEN "called" ELSE "unspawned",
                  ws_threads |-> <<>>, joined |-> 0, wsjoined |-> 0,
                  deps |-> <<>>, cargo_toml_files |-> <<>>]]
    /\ task = [n \in DOMAIN tree |->
                 [k \in DOMAIN tree[n].dependencies |->
                     [pc |-> "unspawned", resp |-> None, ret |-> None, incs |-> 0,
                      clients |-> <<>>, via |-> None]]]
    /\ LET st == init_loader(len(1), FetchTermWidth) IN
          /\ total_deps = st.total_deps
          /\ loaded_deps = st.loaded_deps
          /\ cols = st.cols
          /\ digits = st.digits
    /\ mutex = 0
    /\ shown = [index |-> 0, perc |-> 0, loaded |-> 0]
    /\ incpc = [t \in Threads |-> "absent"]
    /\ inctmp = [t \in Threads |-> 0]
    /\ GatherIdle
    /\ WalkIdle
    /\ CliIdle
    /\ ApiIdle

\* main, line 27: the tree gather_dependencies returned
InitFetch(p, decl, owner) ==
    /\ tree = [n \in DOMAIN p |->
                 [parent |-> p[n],
                  member |-> MemberPaths[n],
                  package_name |-> IF n = 1 THEN None ELSE Some(MemberPaths[n]),
                  dependencies |-> OwnedBy(decl, owner, n)]]
    /\ StartFetch

Init ==
    \E p \in TreeShapes, d \in 0..MaxDeps :
    \E owner \in [1..d -> DOMAIN p] :
       /\ \A i, j \in 1..d : i < j => owner[i] <= owner[j]
       /\ \/ /\ registry = AnyAnswer
             /\ \E decl \in OutcomeDecls(d) : InitFetch(p, decl, owner)
          \/ /\ registry = NewerAnswer
             /\ \E decl \in OrderDecls(d) :
                   /\ \A n \in DOMAIN p : ValidDependencies(OwnedBy(decl, owner, n))
                   /\ InitFetch(p, decl, owner)

Next ==
    \/ \E n \in NodeIds : NodeStart(n)
    \/ \E n \in NodeIds, k \in 1..MaxDeps : LookupTask(n, k)
    \/ \E n \in NodeIds : JoinLookup(n)
    \/ \E n \in NodeIds : JoinWs(n)

Spec == Init /\ [][Next]_vars

\* The fetch phase over the trees gather_dependencies builds when a member
\* lists members itself: every member string is read as a path from the
\* working directory (cargo.rs:371-375), so "b" listed by the root and "b"
\* listed by member "a" are two nodes gathered from the same b/Cargo.toml.
\* members[p] is the list in p/Cargo.toml.
MemberLists ==
    {m \in [Range(MemberPaths) -> SUBSET {"a", "b"}] :
        m["a"] \subseteq {"b"} /\ m["b"] = {}}

\* a set of member paths in the order the nodes are numbered
PathSeq(S) ==
    IF S = {"a", "b"} THEN <<"a", "b">>
    ELSE IF S = {"a"} THEN <<"a">>
    ELSE IF S = {"b"} THEN <<"b">>
    ELSE <<>>

\* the tree of CargoDependencies for the member lists m: the root, its
\* members, then the members' members
TreeOf(m) ==
    LET R == PathSeq(m["."])
        Under(i) == [j \in DOMAIN PathSeq(m[R[i]]) |->
                        [parent |-> 1 + i, member |-> PathSeq(m[R[i]])[j]]]
    IN  <<[parent |-> 0, member |-> "."]>>
        \o [i \in DOMAIN R |-> [parent |-> 1, member |-> R[i]]]
        \o (IF Len(R) >= 1 THEN Under(1) ELSE <<>>)
        \o (IF Len(R) >= 2 THEN Under(2) ELSE <<>>)

MergeNodeIds == 1..4

InitMerge ==
    /\ \E m \in MemberLists :
       \E own \in [Range(MemberPaths) -> UNION {OutcomeDecls(d) : d \in 0..MaxDeps}] :
          /\ tree = [n \in DOMAIN TreeOf(m) |->
                       [parent |-> TreeOf(m)[n].parent,
                        member |-> TreeOf(m)[n].member,
                        package_name |-> IF n = 1 THEN None
                                         ELSE Some(TreeOf(m)[n].member),
                        dependencies |-> own[TreeOf(m)[n].member]]]
          /\ \A q \in Range(MemberPaths) :
                (\A n \in DOMAIN tree : tree[n].member # q) => own[q] = <<>>
    /\ len(1) <= MaxDeps
    /\ registry = NewerAnswer
    /\ StartFetch

NextMerge ==
    \/ \E n \in MergeNodeIds : NodeStart(n)
    \/ \E n \in MergeNodeIds, k \in 1..MaxDeps : LookupTask(n, k)
    \/ \E n \in MergeNodeIds : JoinLookup(n)
    \/ \E n \in MergeNodeIds : JoinWs(n)

SpecMerge == InitMerge /\ [][NextMerge]_vars



----------------------------------------------------------------------------
(* cargo.rs: gather_dependencies, the walk over the workspace members *)

\* the place of a path in MemberPaths
PathRank(p) == CHOOSE i \in DOMAIN MemberPaths : MemberPaths[i] = p

\* the value of `workspace.members`: absent, not an array, or an array of
\* TOML values
NoMembers == [some |-> FALSE]

NotArray == [some |-> TRUE, array |-> FALSE]

Array(items) == [some |-> TRUE, array |-> TRUE, items |-> items]

\* the arrays written in manifests: strings, a non-string among them, one
\* path listed twice
MemberArrayShapes ==
    {<<>>, <<Str("a")>>, <<Str("b")>>, <<Str("a"), Str("b")>>,
     <<Str("b"), Str("a")>>, <<Str("a"), NotStr, Str("b")>>, <<NotStr>>,
     <<Str("b"), Str("b")>>}

\* no manifest names itself or a path above it as a member
MemberValues(p) ==
    {NoMembers, NotArray}
    \cup {Array(items) : items \in
            {a \in MemberArrayShapes :
                \A i \in DOMAIN a : a[i].str => PathRank(a[i].val) > PathRank(p)}}

\* the declarations get_cargo_dependencies resolves from a manifest with
\* `own` entries (the resolution itself is SpecGather)
OwnDependencies(own) ==
    [i \in 1..own |-> CargoDependencyValue("Normal", Names[i], Some(CratesIoSource))]

\* {path}/Cargo.toml: missing or unreadable, not TOML, or a document
ManifestsAt(p) ==
    {[file |-> f, package_name |-> None, deps |-> <<>>, members |-> NoMembers] :
        f \in {"unreadable", "unparsable"}}
    \cup {[file |-> "ok", package_name |-> Some(p),
           deps |-> OwnDependencies(own), members |-> m] :
            own \in 0..MaxOwn, m \in MemberValues(p)}

\* "".parse::<DocumentMut>()
EmptyDocument == [package_name |-> None, deps |-> <<>>, members |-> NoMembers]

\* read_cargo_file: a read error is reported and replaced by the empty
\* string, which parses; a parse error panics
read_cargo_file(m) ==
    CASE m.file = "unparsable" -> [panicked |-> TRUE]
      [] m.file = "unreadable" -> [panicked |-> FALSE, doc |-> EmptyDocument]
      [] OTHER -> [panicked |-> FALSE,
                   doc |-> [package_name |-> m.package_name, deps |-> m.deps,
                            members |-> m.members]]

\* get_workspace_members, lines 356-362: the array to fold over
MemberItems(doc) ==
    IF doc.members.some /\ doc.members.array THEN doc.members.items ELSE <<>>

\* the Cargo.lock read_cargo_lock_file finds from a directory
LockAt(dir) == [lock_of |-> dir]

\* the child is gathered with a lock file loaded from its own directory
PassLock_Reload(lock, member) == LockAt(member)

\* line 374: the lock file reference handed down to the member
PassLock(lock, member) == lock

\* a panic unwinds out of gather_dependencies: nothing is returned
WalkPanicked ==
    /\ wstatus' = "panicked"
    /\ wstack' = <<>>
    /\ tree' = <<>>
    /\ wlock' = <<>>
    /\ UNCHANGED <<manifests, wlen>>

\* gather_dependencies_inner(path, lock), lines 53-56 up to the fold of
\* get_workspace_members: a new node, not yet in its parent's map
WalkEnter(path, parent, lock, stack) ==
    LET r == read_cargo_file(manifests[path]) IN
    IF r.panicked
    THEN WalkPanicked
    ELSE /\ tree' = Append(tree,
                      [parent |-> IF parent = 0 THEN 0 ELSE -1,
                       member |-> path,
                       package_name |-> r.doc.package_name,
                       dependencies |-> r.doc.deps])
         /\ wlock' = Append(wlock, lock)
         /\ wstack' = Append(stack,
                        [id |-> Len(tree) + 1, items |-> MemberItems(r.doc),
                         next |-> 1, parent |-> parent, lockfile |-> lock])
         /\ wstatus' = "walking"
         /\ UNCHANGED <<manifests, wlen>>

\* gather_dependencies, lines 45-47
WalkStart ==
    /\ wstatus = "called"
    /\ WalkEnter(".", 0, LockAt("."), <<>>)
    /\ UNCHANGED <<node, task, registry, loaderVars, incVars, gatherVars, cliVars, apiVars>>

\* the fold closure on a member that is not a string: return acc
WalkSkipMember ==
    /\ wstatus = "walking"
    /\ LET top == wstack[Len(wstack)] IN
       /\ top.next <= Len(top.items)
       /\ ~AsStr(top.items[top.next]).some
       /\ wstack' = [wstack EXCEPT ![Len(wstack)].next = @ + 1]
    /\ UNCHANGED <<tree, wlock, wstatus, manifests, wlen>>
    /\ UNCHANGED <<node, task, registry, loaderVars, incVars, gatherVars, cliVars, apiVars>>

\* the fold closure on a string member: the recursive call of line 373
WalkEnterMember ==
    /\ wstatus = "walking"
    /\ LET top == wstack[Len(wstack)] IN
       /\ top.next <= Len(top.items)
       /\ AsStr(top.items[top.next]).some
       /\ LET member == AsStr(top.items[top.next]).val IN
          WalkEnter(member, top.id, PassLock(top.lockfile, member),
                    [wstack EXCEPT ![Len(wstack)].next = @ + 1])
    /\ UNCHANGED <<node, task, registry, loaderVars, incVars, gatherVars, cliVars, apiVars>>

\* the fold is over: gather_dependencies_inner returns, and the caller's
\* closure inserts the node under its path (replacing an earlier one)
WalkReturn ==
    /\ wstatus = "walking"
    /\ LET top == wstack[Len(wstack)] IN
       /\ top.next > Len(top.items)
       /\ wstack' = SubSeq(wstack, 1, Len(wstack) - 1)
       /\ IF top.parent = 0
          THEN /\ wstatus' = "done"
               /\ UNCHANGED tree
          ELSE /\ wstatus' = "walking"
               /\ tree' = [n \in DOMAIN tree |->
                            IF n = top.id
                            THEN [tree[n] EXCEPT !.parent = top.parent]
                            ELSE IF /\ tree[n].parent = top.parent
                                    /\ tree[n].member = tree[top.id].member
                                 THEN [tree[n] EXCEPT !.parent = -1]
                                 ELSE tree[n]]
    /\ UNCHANGED <<wlock, manifests, wlen>>
    /\ UNCHANGED <<node, task, registry, loaderVars, incVars, gatherVars, cliVars, apiVars>>

\* main.rs:28, let total_deps = dependencies.len()
WalkLen ==
    /\ wstatus = "done"
    /\ ~wlen.some
    /\ wlen' = Some(len(1))
    /\ UNCHANGED <<tree, wstack, wlock, wstatus, manifests>>
    /\ UNCHANGED <<node, task, registry, loaderVars, incVars, gatherVars, cliVars, apiVars>>

InitWalk ==
    /\ \E root \in ManifestsAt("."), a \in ManifestsAt("a"), b \in ManifestsAt("b") :
          manifests = ("." :> root @@ "a" :> a @@ "b" :> b)
    /\ wstack = <<>>
    /\ wlock = <<>>
    /\ wstatus = "called"
    /\ wlen = None
    /\ LoaderIdle
    /\ GatherIdle
    /\ FetchIdle
    /\ CliIdle
    /\ ApiIdle

NextWalk ==
    WalkStart \/ WalkSkipMember \/ WalkEnterMember \/ WalkReturn \/ WalkLen

SpecWalk == InitWalk /\ [][NextWalk]_vars


----------------------------------------------------------------------------
(* main.rs after the fetch phase, and cli.rs: the selection UI *)

\* Longest outdated list handed to the selection UI
MaxOutdated == 3

\* State::new (longest_attributes and total_deps only feed the rendering)
State_new(outdated) ==
    [selected        |-> [i \in DOMAIN outdated |-> FALSE],
     cursor_location |-> 0,
     outdated_deps   |-> outdated]

\* main.rs:33-47: nothing is outdated, main prints the message and returns
MainUpToDate ==
    /\ mainpc = "fetch"
    /\ node[1].pc = "done"
    /\ Len(node[1].deps) = 0
    /\ mainpc' = "exit"
    /\ UNCHANGED <<state, applied, event>>
    /\ UNCHANGED <<fetchVars, loaderVars, incVars, gatherVars, walkVars, apiVars>>

\* main.rs:33-56 with something outdated: the State is built from the
\* sequence the root call returned
MainNewState_Early ==
    /\ mainpc = "fetch"
    /\ node[1].pc \in {"joining", "done"}
    /\ node[1].pc = "done" => Len(node[1].deps) > 0
    /\ state' = Some(State_new(node[1].deps))
    /\ mainpc' = "state"
    /\ UNCHANGED <<applied, event>>
    /\ UNCHANGED <<fetchVars, loaderVars, incVars, gatherVars, walkVars, apiVars>>

MainNewState ==
    /\ mainpc = "fetch"
    /\ node[1].pc = "done"
    /\ Len(node[1].deps) > 0
    /\ state' = Some(State_new(node[1].deps))
    /\ mainpc' = "state"
    /\ UNCHANGED <<applied, event>>
    /\ UNCHANGED <<fetchVars, loaderVars, incVars, gatherVars, walkVars, apiVars>>

\* the fetch phase followed by main up to line 56
NextMain ==
    \/ \E n \in NodeIds : NodeStart(n)
    \/ \E n \in NodeIds, k \in 1..MaxDeps : LookupTask(n, k)
    \/ \E n \in NodeIds : JoinLookup(n)
    \/ \E n \in NodeIds : JoinWs(n)
    \/ MainUpToDate
    \/ MainNewState

\* each registry hands out a newer version or fails: crates.io by a panic in
\* the lookup thread, the alternate registry by an error value or a panic
FailingAnswer ==
    [crates_io |-> {[tag |-> "found", latest |-> <<1, 10, 0>>], [tag |-> "err"]},
     alt       |-> {[tag |-> "found", latest |-> <<1, 10, 0>>], [tag |-> "err"],
                    [tag |-> "abort"]}]

\* every tree shape, every declaration looked up on one of the registries
InitMain ==
    \E p \in TreeShapes, d \in 0..MaxDeps :
    \E owner \in [1..d -> DOMAIN p] :
       /\ \A i, j \in 1..d : i < j => owner[i] <= owner[j]
       /\ registry = FailingAnswer
       /\ \E decl \in OutcomeDecls(d) :
             /\ \A i \in 1..d : decl[i].source.some
             /\ InitFetch(p, decl, owner)

\* Every thread that can take a step is eventually run, and a registry call
\* that was made eventually returns or fails (the step of LookupTask)
FairSpec == InitMain /\ [][NextMain]_vars /\ WF_vars(NextMain)

\* what event::read() may return: the keys the handler names, one other key,
\* and an event that is not a key
Events == {"Up", "Left", "Down", "Right", "Space", "Enter", "a", "i",
           "Esc", "q", "x", "Resize"}

\* selected_dependencies with the filter dropped: every item is kept
selected_dependencies_All(st) == st.outdated_deps

\* State::selected_dependencies: zip with the flags, keep the flagged items
selected_dependencies(st) ==
    LET kept == SelectSeq(Indices(st.outdated_deps), LAMBDA i : st.selected[i])
    IN  [j \in DOMAIN kept |-> st.outdated_deps[kept[j]]]

\* Up / Left stopping at the first row instead of wrapping
CursorUp_NoWrap(st) ==
    IF st.cursor_location = 0 THEN 0 ELSE st.cursor_location - 1

\* lines 74-80
CursorUp(st) ==
    IF st.cursor_location = 0
    THEN Len(st.outdated_deps) - 1
    ELSE st.cursor_location - 1

\* lines 81-83
CursorDown(st) == (st.cursor_location + 1) % Len(st.outdated_deps)

\* State::handle_keyboard_event on the event read: the State it leaves and
\* the Event it returns
handle_keyboard_event(st, ev) ==
    CASE ev \in {"Up", "Left"} ->
            [state |-> [st EXCEPT !.cursor_location = CursorUp(st)],
             ret |-> "HandleKeyboardEvent"]
      [] ev \in {"Down", "Right"} ->
            [state |-> [st EXCEPT !.cursor_location = CursorDown(st)],
             ret |-> "HandleKeyboardEvent"]
      [] ev = "Space" ->
            [state |-> [st EXCEPT !.selected[st.cursor_location + 1] = ~@],
             ret |-> "HandleKeyboardEvent"]
      [] ev = "Enter" -> [state |-> st, ret |-> "UpdateDependencies"]
      [] ev = "a" ->
            [state |-> [st EXCEPT !.selected = [i \in DOMAIN st.outdated_deps |-> TRUE]],
             ret |-> "HandleKeyboardEvent"]
      [] ev = "i" ->
            [state |-> [st EXCEPT !.selected = [i \in DOMAIN st.selected |-> ~st.selected[i]]],
             ret |-> "HandleKeyboardEvent"]
      [] ev \in {"Esc", "q"} -> [state |-> st, ret |-> "Exit"]
      [] OTHER -> [state |-> st, ret |-> "HandleKeyboardEvent"]

\* main.rs:58-61, args.yes: apply the selection at once and return
MainYes ==
    /\ mainpc = "state"
    /\ applied' = Append(applied, selected_dependencies(state.val))
    /\ mainpc' = "exit"
    /\ UNCHANGED <<state, event>>
    /\ UNCHANGED <<fetchVars, loaderVars, incVars, gatherVars, walkVars, apiVars>>

\* main.rs:63, state.start()
MainStart ==
    /\ mainpc = "state"
    /\ mainpc' = "loop"
    /\ UNCHANGED <<state, applied, event>>
    /\ UNCHANGED <<fetchVars, loaderVars, incVars, gatherVars, walkVars, apiVars>>

\* main.rs:65-76, one turn of the loop: handle_keyboard_event, then the match
MainLoop ==
    /\ mainpc = "loop"
    /\ \E ev \in Events :
          LET r == handle_keyboard_event(state.val, ev) IN
          /\ event' = ev
          /\ state' = Some(r.state)
          /\ CASE r.ret = "UpdateDependencies" ->
                    /\ applied' = Append(applied, selected_dependencies(r.state))
                    /\ mainpc' = "exit"
               [] r.ret = "Exit" ->
                    /\ mainpc' = "exit"
                    /\ UNCHANGED applied
               [] OTHER -> UNCHANGED <<mainpc, applied>>
    /\ UNCHANGED <<fetchVars, loaderVars, incVars, gatherVars, walkVars, apiVars>>

\* an outdated item of the root manifest
OutdatedItem(name) ==
    MakeDependency(CargoDependencyValue("Normal", name, Some(CratesIoSource)),
                   <<1, 10, 0>>, None, None)

\* the non-empty sequences retrieve_outdated_dependencies may have returned:
\* sorted, one item per name
OutdatedLists ==
    {[i \in DOMAIN l |-> OutdatedItem(l[i])] :
        l \in {x \in SeqsUpTo(Range(Names), MaxOutdated) :
                 /\ x # <<>>
                 /\ \A i, j \in DOMAIN x : i < j => NameLess(x[i], x[j])}}

\* main.rs:51-56: the State just built from a non-empty outdated list
InitCli ==
    /\ mainpc = "state"
    /\ \E outdated \in OutdatedLists : state = Some(State_new(outdated))
    /\ applied = <<>>
    /\ event = "none"
    /\ LoaderIdle
    /\ GatherIdle
    /\ FetchIdle
    /\ WalkIdle
    /\ ApiIdle

NextCli == MainYes \/ MainStart \/ MainLoop

SpecCli == InitCli /\ [][NextCli]_vars


----------------------------------------------------------------------------
(* api.rs: get_latest_version and CratesIoResponse::from_value *)

\* A JSON string is a sequence of tokens: words, version texts, white space
\* and the requirement operators '=' and '^'
IsWhitespace(c) == c \in {" ", "\n", "\t"}

RECURSIVE TrimStart(_)
TrimStart(s) ==
    IF s # <<>> /\ IsWhitespace(Head(s)) THEN TrimStart(Tail(s)) ELSE s

RECURSIVE TrimEnd(_)
TrimEnd(s) ==
    IF s # <<>> /\ IsWhitespace(s[Len(s)])
    THEN TrimEnd(SubSeq(s, 1, Len(s) - 1)) ELSE s

\* str::trim
Trim(s) == TrimEnd(TrimStart(s))

\* .split('\n').collect::<Vec<&str>>().join(" ")
JoinLines(s) == [i \in DOMAIN s |-> IF s[i] = "\n" THEN " " ELSE s[i]]

\* version.trim_start_matches(&['=', '^'])
RECURSIVE TrimStartMatches(_)
TrimStartMatches(s) ==
    IF s # <<>> /\ Head(s) \in {"=", "^"} THEN TrimStartMatches(Tail(s)) ELSE s

\* get_string_from_value: value is the Option of an object, whose absent
\* keys hold None
get_string_from_value(value, key) ==
    IF ~value.some THEN None
    ELSE IF ~AsStr(value.val[key]).some THEN None
    ELSE Some(JoinLines(Trim(AsStr(value.val[key]).val)))

\* get_field_from_versions: versions is the Option of an array of objects
get_field_from_versions(versions, version, key) ==
    IF ~versions.some THEN None
    ELSE LET num(v) == IF AsStr(v.num).some THEN AsStr(v.num).val ELSE <<>>
             hits == {i \in DOMAIN versions.val :
                        num(versions.val[i]) = TrimStartMatches(version)}
         IN  IF hits = {} THEN None
             ELSE LET v == versions.val[CHOOSE i \in hits : \A h \in hits : i <= h]
                  IN  IF ~AsStr(v[key]).some THEN None
                      ELSE Some(Trim(AsStr(v[key]).val))

\* value.get(k).and_then(|c| c.as_object()) / as_array(): None unless the key
\* is there and holds an object / an array
AsContainer(item) == IF item.some /\ item.container THEN Some(item.val) ELSE None

\* CratesIoResponse::from_value
from_value(value, version) ==
    LET data == AsContainer(value.crate)
        versions == AsContainer(value.versions)
        max_stable == get_string_from_value(data, "max_stable_version")
    IN  IF ~max_stable.some
        THEN None
        ELSE LET latest_version == max_stable.val IN
             Some([repository  |-> get_string_from_value(data, "repository"),
                   description |-> get_string_from_value(data, "description"),
                   latest_version_date |->
                       get_field_from_versions(versions, latest_version, "updated_at"),
                   current_version_date |->
                       get_field_from_versions(versions, version, "updated_at"),
                   latest_version |-> latest_version])

\* a JSON container under a key, and a value of another type there
Container(x) == [some |-> TRUE, container |-> TRUE, val |-> x]

NotContainer == [some |-> TRUE, container |-> FALSE]

Absent == [some |-> FALSE, container |-> FALSE]

\* serde_json::json!({})
EmptyObject == [crate |-> Absent, versions |-> Absent]

\* the "crate" objects, "versions" arrays and documents crates.io may send
CrateObjects ==
    [repository : {None, Str(<<"\t", "repo", " ">>)},
     description : {None, NotStr, Str(<<" ", "A", "\n", "description", "\n", " ">>)},
     max_stable_version : {None, NotStr, Str(<<"0.2.0">>), Str(<<"0.1.0">>)}]

VersionObjects ==
    [num : {None, Str(<<"0.1.0">>), Str(<<"0.2.0">>)},
     updated_at : {None, Str(<<" ", "2023-07-01", "\n">>), Str(<<"2023-07-02">>)}]

MaxVersions == 2

JsonValues ==
    [crate : {Absent, NotContainer} \cup {Container(c) : c \in CrateObjects},
     versions : {Absent, NotContainer}
                \cup {Container(v) : v \in SeqsUpTo(VersionObjects, MaxVersions)}]

\* what the transfer left in `body`: nothing, bytes that are no JSON, a
\* document; or the transfer failed
Bodies ==
    {[kind |-> "empty"], [kind |-> "invalid"], [kind |-> "failed"]}
    \cup {[kind |-> "json", value |-> v] : v \in JsonValues}

\* get_latest_version, lines 77-94
get_latest_version(body, version) ==
    CASE body.kind = "failed" -> [pc |-> "panicked"]
      [] body.kind = "invalid" -> [pc |-> "returned", ok |-> FALSE]
      [] body.kind = "empty" ->
            [pc |-> "returned", ok |-> TRUE, val |-> from_value(EmptyObject, version)]
      [] OTHER ->
            [pc |-> "returned", ok |-> TRUE, val |-> from_value(body.value, version)]

GetLatestVersion ==
    /\ api_ret.pc = "called"
    /\ api_ret' = get_latest_version(api_body, api_version)
    /\ UNCHANGED <<api_body, api_version>>
    /\ UNCHANGED <<loaderVars, incVars, gatherVars, fetchVars, walkVars, cliVars>>

\* the requirement-like texts CargoDependency.version is drawn from
ApiVersions == {<<"0.1.0">>, <<"=", "0.1.0">>, <<"^", "0.2.0">>}

InitApi ==
    /\ api_body \in Bodies
    /\ api_version \in ApiVersions
    /\ api_ret = [pc |-> "called"]
    /\ LoaderIdle
    /\ GatherIdle
    /\ FetchIdle
    /\ WalkIdle
    /\ CliIdle

NextApi == GetLatestVersion

SpecApi == InitApi /\ [][NextApi]_vars

----------------------------------------------------------------------------
(* Claims about the fetch phase (Spec) *)

RootReturned == node[1].pc = "done"

AllTasks == {<<n, k>> \in NodeIds \X (1..(MaxDeps + 1)) :
                n \in DOMAIN task /\ k \in DOMAIN task[n]}

Finished(t) == t.pc \in {"returned", "panicked"}

\* the registry answered with a version newer than the locked one
AnsweredNewer(n, k) ==
    /\ task[n][k].resp.tag = "found"
    /\ ParseVersion(task[n][k].resp.latest).ok
    /\ VersionLess(ParseVersion(tree[n].dependencies[k].version),
                   ParseVersion(task[n][k].resp.latest))

\* the lookup failed: an error value or a panic in its thread
LookupFailed(n, k) ==
    \/ task[n][k].pc = "panicked"
    \/ task[n][k].pc = "returned" /\ task[n][k].resp.tag = "err"

\* the items of declaration k of node n in a sequence of Dependency
ItemsOf(deps, n, k) ==
    {i \in DOMAIN deps :
        /\ deps[i].name = tree[n].dependencies[k].name
        /\ deps[i].kind = tree[n].dependencies[k].kind
        /\ deps[i].workspace_path = WorkspacePath(n)}

\* C1 (as claimed): once the root retrieve_outdated_dependencies has
\* returned, loaded_deps equals total_deps = len() of the root.
C1_LoadedEqualsTotal == RootReturned => loaded_deps = total_deps

\* C2 (as claimed): every lookup thread that has ended, whatever its outcome,
\* has incremented the progress counter exactly once.
C2_EveryLookupIncrementsOnce ==
    \A x \in AllTasks : Finished(task[x[1]][x[2]]) => task[x[1]][x[2]].incs = 1

\* C7: every item of the sequence a node returns (its own items and those
\* merged in from members at any depth) has parsed current version strictly
\* below parsed latest version.
C7_OnlyStrictlyOutdated ==
    \A n \in DOMAIN node :
        node[n].pc = "done" =>
            \A i \in DOMAIN node[n].deps :
                LET cur == ParseVersion(node[n].deps[i].current_version)
                    lat == ParseVersion(node[n].deps[i].latest_version)
                IN  /\ cur.ok /\ lat.ok
                    /\ \/ cur.major < lat.major
                       \/ cur.major = lat.major /\ cur.minor < lat.minor
                       \/ cur.major = lat.major /\ cur.minor = lat.minor
                                                /\ cur.patch < lat.patch

\* C7 witness: the root returned an item of a member nested two levels down,
\* while an alternate-registry lookup that answered the locked version
\* itself (current = latest) left no item
C7_Witness ==
    /\ RootReturned
    /\ \E i \in DOMAIN node[1].deps :
          \E n \in DOMAIN tree :
              /\ tree[n].parent > 1
              /\ node[1].deps[i].workspace_path = WorkspacePath(n)
    /\ \E x \in AllTasks :
          /\ IsAltRegistry(tree[x[1]].dependencies[x[2]])
          /\ task[x[1]][x[2]].pc = "returned"
          /\ task[x[1]][x[2]].resp.tag = "found"
          /\ task[x[1]][x[2]].resp.latest = tree[x[1]].dependencies[x[2]].version
          /\ ItemsOf(node[1].deps, x[1], x[2]) = {}

\* (kind, name) order with Normal < Dev < Build < Workspace
KindOrder == [Normal |-> 1, Dev |-> 2, Build |-> 3, Workspace |-> 4]

KeyLeq(a, b) ==
    \/ KindOrder[a.kind] < KindOrder[b.kind]
    \/ KindOrder[a.kind] = KindOrder[b.kind] /\ NameRank(a.name) <= NameRank(b.name)

\* C8: the sequence the root returns is sorted ascending by (kind, name)
\* as a whole: own items together with all descendants' items.
C8_FinalSequenceSorted ==
    RootReturned =>
        \A i, j \in DOMAIN node[1].deps :
            i < j => KeyLeq(node[1].deps[i], node[1].deps[j])

\* C8 witness: in the returned sequence an item of a member precedes an item
\* of the root itself with a different key (before the sort the root's own
\* items come first)
C8_Witness ==
    /\ RootReturned
    /\ \E i, j \in DOMAIN node[1].deps :
          /\ i < j
          /\ node[1].deps[i].workspace_path # None
          /\ node[1].deps[j].workspace_path = None
          /\ ~KeyLeq(node[1].deps[j], node[1].deps[i])

\* the items node n gets from its own lookups, in join order, after the filter
OwnOutdated(n) ==
    LET itemOf(k) == IF IsCratesIo(tree[n].dependencies[k])
                     THEN JoinCratesIo(task[n][k]).item
                     ELSE JoinAlt(task[n][k]).item
        keeps(k) == /\ itemOf(k).some
                    /\ IsOutdated(ParseVersion(itemOf(k).val.current_version),
                                  ParseVersion(itemOf(k).val.latest_version))
        kept == SelectSeq(LookupOrder(n), keeps)
    IN  [i \in DOMAIN kept |-> itemOf(kept[i]).val]

\* the sequence node n returns in the run whose maps iterate members in
\* ascending order, for the answers the registries gave
RECURSIVE Expected(_)
Expected(n) ==
    LET RECURSIVE Merge(_)
        Merge(S) == IF S = {} THEN <<>>
                    ELSE LET c == CHOOSE x \in S : \A y \in S : x <= y
                         IN  Expected(c) \o Merge(S \ {c})
    IN  SortDeps(OwnOutdated(n) \o Merge(Children(n)))

\* C9 (as claimed): for fixed manifests, lock file and registry answers the
\* final sequence is the same in every run, whatever order the threads end in
\* and whatever order the workspace-member map is iterated in: it equals the
\* sequence of the run that iterates the members in ascending order.
C9_SameSequenceInEveryRun == RootReturned => node[1].deps = Expected(1)

\* C10: a failed lookup (error value, or panic in its thread) aborts no node;
\* a node that returned joined every one of its lookups; the failed lookup
\* has no item in the result and every lookup answered with a newer version
\* has its item in the result.
C10_FailureIsIsolated ==
    /\ \A n \in DOMAIN node :
          /\ node[n].pc # "panicked"
          /\ node[n].pc = "done" => node[n].joined = Len(LookupOrder(n))
    /\ RootReturned =>
          \A x \in AllTasks :
              LET n == x[1]
                  k == x[2]
              IN  /\ LookupFailed(n, k) => ItemsOf(node[1].deps, n, k) = {}
                  /\ (task[n][k].pc = "returned" /\ AnsweredNewer(n, k))
                     => \E i \in ItemsOf(node[1].deps, n, k) :
                           node[1].deps[i].latest_version = task[n][k].resp.latest

\* C10 witness: the root returned; one of its lookups panicked in its thread
\* and a sibling lookup of the same node has its item in the result
C10_Witness ==
    /\ RootReturned
    /\ \E x, y \in AllTasks :
          /\ x[1] = y[1] /\ x[2] # y[2]
          /\ task[x[1]][x[2]].pc = "panicked"
          /\ ItemsOf(node[1].deps, y[1], y[2]) # {}

\* the registry handed lookup k of node n a latest version that is no semver
AnsweredUnparsable(n, k) ==
    /\ Finished(task[n][k])
    /\ task[n][k].resp.tag = "found"
    /\ ~ParseVersion(task[n][k].resp.latest).ok

\* C11 (as claimed): a version string that fails semantic-version parsing
\* aborts the whole run, also when it is the latest version a registry
\* returned to a lookup (default or alternate, root or member): the root
\* call never returns normally once a lookup was answered such a string.
C11_BadVersionAborts ==
    \A x \in AllTasks : AnsweredUnparsable(x[1], x[2]) => ~RootReturned

\* node n is past its classification loop and its spawns
Spawned(n) == node[n].pc \notin {"unspawned", "called"}

\* C15 (as claimed): a declaration without a lock source (a `path`
\* dependency; the manifest's `path` key itself is not carried into
\* CargoDependency) is never handed to a lookup thread, and its node resolves
\* it synchronously before the fan-out, incrementing the counter once for it.
C15_PathResolvedSynchronously ==
    \A x \in AllTasks :
        ~tree[x[1]].dependencies[x[2]].source.some =>
            /\ task[x[1]][x[2]].clients = <<>>
            /\ task[x[1]][x[2]].pc = "unspawned"
            /\ Spawned(x[1]) => task[x[1]][x[2]].incs = 1

\* the client the claim routes a source locator to
RouteOf(source) ==
    IF source = "registry+https://github.com/rust-lang/crates.io-index"
    THEN "crates_io" ELSE "alt"

\* C17: once a node has spawned its threads, every declaration with a source
\* locator was handed to exactly one thread, of the default registry iff the
\* locator is the crates.io one and of the alternate registry otherwise; the
\* lookup that ran for it called that client; a declaration without a
\* locator was handed to none.
C17_RoutedToOneTask ==
    \A x \in AllTasks :
        LET dep == tree[x[1]].dependencies[x[2]]
            t == task[x[1]][x[2]]
        IN  /\ ~Spawned(x[1]) => t.clients = <<>> /\ t.pc = "unspawned"
            /\ Spawned(x[1]) =>
                  IF dep.source.some
                  THEN /\ t.clients = <<RouteOf(dep.source.val)>>
                       /\ t.pc # "unspawned"
                       /\ Finished(t) => t.via = Some(RouteOf(dep.source.val))
                  ELSE t.clients = <<>> /\ t.pc = "unspawned"

\* C17 witness: a member node holds a crates.io and an alternate-registry
\* declaration; both lookups ended, each through its own client
C17_Witness ==
    \E x, y \in AllTasks :
        /\ x[1] = y[1] /\ x[1] # 1
        /\ task[x[1]][x[2]].pc = "returned"
        /\ task[x[1]][x[2]].via = Some("crates_io")
        /\ task[y[1]][y[2]].pc = "returned"
        /\ task[y[1]][y[2]].via = Some("alt")

\* the lookups node n has a thread for: its declarations with a lock source
Lookups(n) == {k \in DOMAIN tree[n].dependencies : tree[n].dependencies[k].source.some}

\* C24: a node that returned has every lookup thread and every member thread
\* it spawned finished (so a returned root means the whole tree has
\* finished); a node that has joined anything had spawned all its threads
\* before; and it joins a member thread only after all its lookup threads.
C24_JoinsAfterSpawnsLookupsFirst ==
    /\ \A n \in DOMAIN node :
          /\ node[n].pc = "done" =>
                /\ \A k \in Lookups(n) : Finished(task[n][k])
                /\ \A c \in Children(n) : node[c].pc = "done"
          /\ (node[n].joined > 0 \/ node[n].wsjoined > 0) =>
                /\ \A k \in Lookups(n) : task[n][k].pc # "unspawned"
                /\ \A c \in Children(n) : node[c].pc # "unspawned"
          /\ node[n].wsjoined > 0 => node[n].joined = Cardinality(Lookups(n))
    /\ RootReturned =>
          \A n \in DOMAIN node :
              /\ node[n].pc = "done"
              /\ \A k \in Lookups(n) : Finished(task[n][k])

\* C24 witness: the root returned after joining a lookup of its own and a
\* member that had joined a lookup and a member of its own
C24_Witness ==
    /\ RootReturned
    /\ Lookups(1) # {}
    /\ \E c \in Children(1) :
          /\ Lookups(c) # {}
          /\ Children(c) # {}
          /\ node[c].wsjoined = 1

\* C24, second witness: a node is joining its members while one of the
\* member's own lookups has not ended
C24_WitnessWaiting ==
    \E n \in DOMAIN node :
        /\ node[n].pc = "joining"
        /\ Lookups(n) # {}
        /\ node[n].joined = Cardinality(Lookups(n))
        /\ \E c \in Children(n) : \E k \in Lookups(c) : task[c][k].pc = "running"

\* lookup k of node n returned an outdated item
Produces(n, k) == task[n][k].pc = "returned" /\ AnsweredNewer(n, k)

\* the item the claim expects of it: labelled with n's package name and path
ProducedBy(n, k) ==
    [name |-> tree[n].dependencies[k].name,
     current_version |-> tree[n].dependencies[k].version,
     latest_version |-> task[n][k].resp.latest,
     kind |-> tree[n].dependencies[k].kind,
     workspace_member |-> tree[n].package_name,
     workspace_path |-> IF n = 1 THEN None ELSE Some(tree[n].member)]

Count(seq, x) == Cardinality({i \in DOMAIN seq : seq[i] = x})

\* how often x is among the items of n's own lookups / of what n's members
\* returned
CountOwn(n, x) ==
    Cardinality({k \in Lookups(n) : Produces(n, k) /\ ProducedBy(n, k) = x})

CountMembers(n, x) ==
    Cardinality({y \in Children(n) \X (1..(MaxDeps + 1)) :
                   /\ y[2] \in DOMAIN node[y[1]].deps
                   /\ node[y[1]].deps[y[2]] = x})

ItemsAround(n) ==
    Range(node[n].deps)
    \cup {ProducedBy(n, k) : k \in {j \in Lookups(n) : Produces(n, j)}}
    \cup UNION {Range(node[c].deps) : c \in Children(n)}

DeclaredPath(n) == IF n = 1 THEN "." ELSE tree[n].member

\* C28 (as claimed): the manifest map the root returns holds one entry per
\* node of the workspace tree, the root's under "." and each member's under
\* its declared path; no node's manifest is overwritten or dropped by the
\* merges, also when members at different levels declare the same path.
C28_OneManifestPerNode ==
    RootReturned =>
        /\ Cardinality(DOMAIN node[1].cargo_toml_files) = Cardinality(DOMAIN tree)
        /\ \A n \in DOMAIN tree :
              /\ DeclaredPath(n) \in DOMAIN node[1].cargo_toml_files
              /\ \E key \in DOMAIN node[1].cargo_toml_files :
                    node[1].cargo_toml_files[key] = n

----------------------------------------------------------------------------
(* Claims about the manifest reader (SpecGather) *)

\* a table or inline table without a `version` key
TableWithoutVersion(e) == e.shape \in {"inline", "table"} /\ ~e.version.some

\* C12 (as claimed): a table or inline-table entry that has no `version` key
\* and is not marked `workspace = true` makes gathering fail fatally: once
\* such an entry was visited, gathering has panicked.
C12_MissingVersionIsFatal ==
    \A e \in Visited :
        (TableWithoutVersion(e) /\ ~e.workspace) => gstatus = "panicked"

\* C13 (as claimed): an entry marked `workspace = true` is excluded from the
\* declaration set: no collected declaration comes from such an entry.
C13_InheritedIsExcluded ==
    \A k \in DOMAIN gdeps : ~EntryOf(gdeps[k]).workspace

\* C18: a section that is absent or not table-like yields an empty list
\* without failing; an entry that is neither a string nor a table is ignored
\* without failing (gathering never panics on it and it yields nothing); and
\* when gathering returns, every bare-string, inline-table or table entry
\* with a `version` string has yielded exactly one declaration, of the
\* section's kind, and nothing else has.
C18_ShapesHandled ==
    /\ gitem # "table" => (gstatus # "panicked" /\ gdeps = <<>>)
    /\ gstatus = "panicked" => section[gpos - 1].shape # "other"
    /\ \A k \in DOMAIN gdeps :
          /\ EntryOf(gdeps[k]).shape \in {"string", "inline", "table"}
          /\ gdeps[k].kind = gkind
    /\ gstatus = "done" =>
          /\ \A e \in Range(section) :
                AsksForPackage(e) =>
                    Cardinality({k \in DOMAIN gdeps : gdeps[k].name = e.key}) = 1
          /\ Len(gdeps) = Cardinality({e \in Range(section) : AsksForPackage(e)})

\* C18 witness: a workspace-kind section whose first entry is an integer and
\* whose second is a table was read to the end; one declaration came out
C18_Witness ==
    /\ gstatus = "done"
    /\ gkind = "Workspace"
    /\ Len(section) = 2
    /\ section[1].shape = "other"
    /\ section[2].shape = "table"
    /\ Len(gdeps) = 1
    /\ gdeps[1].name = section[2].key

\* C18, second witness: a section that is a plain value returned empty
C18_WitnessNotTable == gitem = "value" /\ gstatus = "done" /\ lockfile # <<>>

\* the entry carries a `package` string
Renamed(e) == e.shape # "string" /\ e.package.some /\ e.package.str

\* C19: the binary search of an entry with a `package` string lands on (and
\* returns) a lock entry named as the `package` value; without one, a lock
\* entry named as the key.  The declaration keeps the key as its name and
\* the returned lock entry's name as its package.
C19_SearchedUnderPackage ==
    \A k \in DOMAIN gdeps :
        LET d == gdeps[k]
            e == EntryOf(d)
            searched == IF Renamed(e) THEN e.package.val ELSE e.key
        IN  /\ lockfile[gfound[k].landed].name = searched
            /\ lockfile[gfound[k].index].name = searched
            /\ d.name = e.key
            /\ d.package = lockfile[gfound[k].index].name
            /\ ~Renamed(e) => d.name = d.package

\* C19 witness: entry `foo = { package = "bar", .. }` was resolved to the
\* lock entry of bar although the lock file also holds a foo that satisfies
\* the requirement
C19_Witness ==
    \E k \in DOMAIN gdeps :
        /\ gdeps[k].name = "foo"
        /\ gdeps[k].package = "bar"
        /\ \E i \in DOMAIN lockfile :
              /\ lockfile[i].name = "foo"
              /\ Matches(WantedReq(EntryOf(gdeps[k])), lockfile[i].version)

----------------------------------------------------------------------------
(* Claims about the workspace walk (SpecWalk) *)

\* node m lies in the subtree of node n
RECURSIVE IsUnder(_, _)
IsUnder(m, n) ==
    \/ m = n
    \/ tree[m].parent \in DOMAIN tree /\ IsUnder(tree[m].parent, n)

\* every declaration of the subtree of n, as (node, index)
DeclsUnder(n) ==
    {x \in (DOMAIN tree) \X (1..(MaxOwn + 1)) :
        IsUnder(x[1], n) /\ x[2] \in DOMAIN tree[x[1]].dependencies}

\* C14: len() of a node is the number of declarations of the node itself
\* and of all its descendants at any depth (its own count plus its members'
\* len()); the value main reads from the root is that of the whole tree.
C14_LenCountsWholeSubtree ==
    /\ wlen.some => wlen.val = Cardinality(DeclsUnder(1))
    /\ wstatus = "done" =>
          \A n \in DOMAIN tree : len(n) = Cardinality(DeclsUnder(n))

\* C14 witness: the root declares nothing, member "a" two and member "b"
\* three dependencies; len() returned 5
C14_Witness ==
    /\ wlen = Some(5)
    /\ Len(tree) = 3
    /\ Len(tree[1].dependencies) = 0
    /\ \E a, b \in Children(1) :
          /\ tree[a].member = "a" /\ Len(tree[a].dependencies) = 2
          /\ tree[b].member = "b" /\ Len(tree[b].dependencies) = 3

\* C14, second witness: a member of a member has declarations that the
\* root's len() counted
C14_WitnessDeep ==
    /\ wlen.some
    /\ \E n \in DOMAIN tree :
          /\ tree[n].parent > 1
          /\ tree[tree[n].parent].parent = 1
          /\ Len(tree[n].dependencies) = 3
          /\ wlen.val >= 4

\* C16 (as claimed): an unreadable or unparsable manifest at any node aborts
\* the run: no node is ever built from a path whose Cargo.toml could not be
\* read and parsed.
C16_BadManifestAborts ==
    \A n \in DOMAIN tree : manifests[tree[n].member].file = "ok"

\* gather_dependencies_inner has returned for node n
WalkReturned(n) == \A i \in DOMAIN wstack : wstack[i].id # n

\* the path strings in the `workspace.members` array of the manifest at p
MemberStrings(p) ==
    LET m == manifests[p] IN
    IF m.file = "ok" /\ m.members.some /\ m.members.array
    THEN {m.members.items[i].val :
             i \in {j \in DOMAIN m.members.items : m.members.items[j].str}}
    ELSE {}

\* C20: a node whose gathering returned has one child per path string of
\* its manifest's `workspace.members` array, keyed by that string, none for
\* the non-string entries, and none at all without such an array; and every
\* node was gathered with the lock file loaded at the root.
C20_OneChildPerMemberString ==
    /\ \A n \in DOMAIN tree :
          WalkReturned(n) =>
              /\ {tree[c].member : c \in Children(n)} = MemberStrings(tree[n].member)
              /\ \A c, d \in Children(n) : tree[c].member = tree[d].member => c = d
    /\ \A n \in DOMAIN wlock : wlock[n] = LockAt(".")

\* C20 witness: the root lists "a", an integer and "b"; it returned with the
\* two children, and "a" has a child of its own
C20_Witness ==
    /\ wstatus = "done"
    /\ manifests["."].members = Array(<<Str("a"), NotStr, Str("b")>>)
    /\ Cardinality(Children(1)) = 2
    /\ \E c \in Children(1) : tree[c].member = "a" /\ Children(c) # {}

\* C20, second witness: `workspace.members` is not an array, the root
\* returned without children
C20_WitnessNotArray ==
    /\ wstatus = "done"
    /\ manifests["."].members = NotArray
    /\ Len(tree) = 1


----------------------------------------------------------------------------
(* Claims about running to completion (FairSpec) *)

\* C21: under fair scheduling, with every registry call returning or
\* failing, the root retrieve_outdated_dependencies eventually returns on
\* every workspace tree, and the selection State is never created before it
\* has returned.
C21_FetchRunsToCompletion ==
    /\ <>RootReturned
    /\ [](state.some => RootReturned)

\* C21 witness: the State exists after a fetch over a member nested in a
\* member, in which a lookup of a member failed in its thread
C21_Witness ==
    /\ state.some
    /\ mainpc = "state"
    /\ RootReturned
    /\ \E n \in DOMAIN tree : tree[n].parent > 1
    /\ \E x \in AllTasks : x[1] # 1 /\ task[x[1]][x[2]].pc = "panicked"

----------------------------------------------------------------------------
(* Claims about the progress counter (SpecLoader, Spec) *)

\* thread t writes the incremented count back in this step
Stores(t) == incpc[t] = "loaded" /\ incpc'[t] = "stored"

\* C22: every inc_loader call raises loaded_deps by exactly one (its store
\* step adds one, no other step changes it); the percentage it reports is
\* the integer truncation of 100 * loaded / total for the new count; and the
\* call leaves total_deps, cols and digits as init_loader set them.
C22_IncAddsOneAndTruncates ==
    [][/\ UNCHANGED <<total_deps, cols, digits>>
       /\ \A t \in Threads :
             Stores(t) =>
                /\ loaded_deps' = loaded_deps + 1
                /\ shown'.loaded = loaded_deps'
                /\ shown'.perc * total_deps <= 100 * loaded_deps'
                /\ 100 * loaded_deps' < (shown'.perc + 1) * total_deps
       /\ (\A t \in Threads : ~Stores(t)) => UNCHANGED <<loaded_deps, shown>>]_vars

\* C22 witness: a call has just reported 33% for 1 of 3 (100/3 truncated),
\* after which a second call reported 66%
C22_Witness ==
    /\ total_deps = 3
    /\ loaded_deps = 2
    /\ shown = [index |-> 1, perc |-> 66, loaded |-> 2]
    /\ \E t \in Threads : incpc[t] = "stored"
    /\ \E t \in Threads : incpc[t] = "done"

----------------------------------------------------------------------------
(* Claims about the crates.io response (SpecApi) *)

\* the document from_value was applied to
ApiDocument == IF api_body.kind = "json" THEN api_body.value ELSE EmptyObject

\* C23 (as claimed): from_value applied to a response without crate data (the
\* empty JSON object) returns a response, not None, whose latest_version is
\* the current version passed in and whose repository, description and both
\* dates are absent.
C23_EmptyResponseKeepsCurrent ==
    (/\ api_ret.pc = "returned"
     /\ api_body.kind \in {"empty", "json"}
     /\ ApiDocument = EmptyObject)
    => /\ api_ret.ok
       /\ api_ret.val.some
       /\ api_ret.val.val.latest_version = api_version
       /\ api_ret.val.val.repository = None
       /\ api_ret.val.val.description = None
       /\ api_ret.val.val.latest_version_date = None
       /\ api_ret.val.val.current_version_date = None

C27_WitnessEmpty ==
    /\ total_deps = 0
    /\ RootReturned
    /\ Cardinality(DOMAIN tree) = 3
    /\ shown.loaded = 0

----------------------------------------------------------------------------
(* Claims about the selection UI (SpecCli) *)

\* the number of outdated items the State was built from
OutdatedLen == Len(state.val.outdated_deps)

\* C29: on a State built from a non-empty outdated list, whatever keys are
\* pressed, cursor_location stays within 0..len-1 and selected keeps length
\* len; Up / Left move the cursor up by one and wrap from 0 to len-1, Down /
\* Right move it down by one and wrap from len-1 to 0, both leaving every
\* flag as it was; Space flips the flag at the cursor and no other, and
\* leaves the cursor.
C29_CursorWrapsFlagsKept ==
    /\ [](state.some =>
            /\ state.val.cursor_location \in 0..(OutdatedLen - 1)
            /\ Len(state.val.selected) = OutdatedLen)
    /\ [][mainpc = "loop" =>
            LET old == state.val
                new == state'.val
            IN  /\ event' \in {"Up", "Left"} =>
                      /\ new.cursor_location =
                            IF old.cursor_location = 0 THEN OutdatedLen - 1
                            ELSE old.cursor_location - 1
                      /\ new.selected = old.selected
                /\ event' \in {"Down", "Right"} =>
                      /\ new.cursor_location =
                            IF old.cursor_location = OutdatedLen - 1 THEN 0
                            ELSE old.cursor_location + 1
                      /\ new.selected = old.selected
                /\ event' = "Space" =>
                      /\ new.cursor_location = old.cursor_location
                      /\ \A i \in 1..OutdatedLen :
                            new.selected[i] =
                               IF i = old.cursor_location + 1
                               THEN ~old.selected[i] ELSE old.selected[i]
                /\ new.outdated_deps = old.outdated_deps]_vars

\* C29 witness: on a list of three, with the second item selected, Up was
\* pressed at row 0 and the cursor is on the last row
C29_Witness ==
    /\ state.some
    /\ mainpc = "loop"
    /\ OutdatedLen = 3
    /\ event = "Up"
    /\ state.val.cursor_location = 2
    /\ state.val.selected = <<FALSE, TRUE, FALSE>>

\* C29, second witness: Down was pressed on the last row
C29_WitnessDown ==
    /\ state.some
    /\ mainpc = "loop"
    /\ OutdatedLen = 3
    /\ event = "Right"
    /\ state.val.cursor_location = 0
    /\ state.val.selected = <<FALSE, FALSE, TRUE>>

\* app is the items of st whose flag is set, in the order st holds them
IsSelectionOf(app, st) ==
    /\ \A i \in DOMAIN st.outdated_deps :
          st.selected[i] <=> \E j \in DOMAIN app : app[j] = st.outdated_deps[i]
    /\ Len(app) = Cardinality({i \in DOMAIN st.selected : st.selected[i]})
    /\ \A j, k \in DOMAIN app :
          j < k => \E a, b \in DOMAIN st.outdated_deps :
                      /\ a < b
                      /\ st.outdated_deps[a] = app[j]
                      /\ st.outdated_deps[b] = app[k]

\* C30: Enter ends the loop and applies exactly the items whose flag is set
\* at that moment, in the order of the outdated list; Esc and 'q' end the
\* loop with nothing applied; any other event keeps the loop going and
\* applies nothing; apply_versions is called at most once in a run.
C30_EnterAppliesSelectionOnce ==
    /\ [](Len(applied) <= 1)
    /\ [][mainpc = "loop" =>
            /\ event' = "Enter" =>
                  /\ mainpc' = "exit"
                  /\ Len(applied') = 1
                  /\ IsSelectionOf(applied'[1], state.val)
            /\ event' \in {"Esc", "q"} =>
                  /\ mainpc' = "exit"
                  /\ applied' = <<>>
            /\ event' \notin {"Enter", "Esc", "q"} =>
                  /\ mainpc' = "loop"
                  /\ applied' = <<>>]_vars

\* C30 witness: Enter was pressed with the first and the third of three items
\* selected, and those two were applied
C30_Witness ==
    /\ mainpc = "exit"
    /\ event = "Enter"
    /\ state.val.selected = <<TRUE, FALSE, TRUE>>
    /\ Len(applied) = 1
    /\ applied[1] = <<state.val.outdated_deps[1], state.val.outdated_deps[3]>>

\* C30, second witness: 'q' was pressed with items selected, nothing applied
C30_WitnessQuit ==
    /\ mainpc = "exit"
    /\ event = "q"
    /\ state.val.selected = <<TRUE, TRUE>>
    /\ applied = <<>>

====
